---- MODULE Spec2Model ----
(***************************************************************************)
(* Two-phase dependency-graph analyzer of beads_viewer (pkg/analysis).     *)
(* The module models the Analyzer built by NewAnalyzer, the GraphStats     *)
(* handle returned by AnalyzeAsyncWithConfig, the background phase-2       *)
(* coordinator computePhase2 with its four deadline-guarded sub-workers,   *)
(* and consumers that call the lock-protected accessors concurrently.      *)
(*                                                                         *)
(* Go maps and slices are reference values: they live in `heap` and the    *)
(* handle, the coordinator's locals and the consumers hold addresses.      *)
(* Address 0 is nil.                                                        *)
(***************************************************************************)
EXTENDS Integers, Sequences, FiniteSets, TLC

VARIABLES
    issues,     \* the input slice given to NewAnalyzer
    a,          \* the Analyzer: graph, id maps, issue map
    stats,      \* the GraphStats handle (zero value before AnalyzeAsyncWithConfig)
    mu,         \* stats.mu, the sync.RWMutex of the handle
    heap,       \* map and slice objects, by address
    pc,         \* position of the computePhase2 goroutine
    local,      \* local variables of computePhase2
    sub,        \* state of the four sub-worker goroutines
    chans,      \* the buffered result channels prDone, bwDone, hitsDone, cyclesDone
    rpc,        \* position of every consumer
    waited,     \* consumers for which WaitForPhase2 has returned
    snaps,      \* addresses returned to consumers by snapshot accessors
    ret,        \* what the last query on the analyzer returned
    cache,      \* the Cache: its single slot (stats, dataHash, computedAt) and ttl
    now,        \* the clock read by the Cache
    log,        \* history: the Set and Invalidate calls made on the Cache, in order
    other,      \* the state of a second AnalyzeAsyncWithConfig call on the same Analyzer
    ws,         \* one AggregateLoader.LoadAll call: context, loader goroutines, results
    fb          \* a FeedbackStore, its feedback file and the callers of Save

vars == <<issues, a, stats, mu, heap, pc, local, sub, chans, rpc, waited, snaps, ret,
          cache, now, log, other, ws, fb>>

----------------------------------------------------------------------------
(* Bounds *)

MaxIssues == 3
MaxDeps == 2
NumReaders == 1
MaxSnaps == 2
MaxMutations == 1

IdPool == <<"A", "B", "C", "D", "E">>
UnknownID == "Z"
Readers == 1..NumReaders

----------------------------------------------------------------------------
(* Generic helpers *)

Max(S) == CHOOSE x \in S : \A y \in S : y <= x

Min(S) == CHOOSE x \in S : \A y \in S : x <= y

Range(s) == {s[i] : i \in DOMAIN s}

RECURSIVE SetToSortedSeq(_)
SetToSortedSeq(S) ==
    IF S = {} THEN <<>>
    ELSE LET m == Min(S) IN <<m>> \o SetToSortedSeq(S \ {m})

\* every sequence that lists each element of S exactly once
Orderings(S) ==
    {p \in [1..Cardinality(S) -> S] : \A x \in S : \E i \in DOMAIN p : p[i] = x}

----------------------------------------------------------------------------
(* Score values.  Scores are float64 in the program; the model keeps them  *)
(* exact: a rational n/d, or the value an external centrality routine      *)
(* assigns to a node (a function of the graph and the node only).          *)

Rat(n, d) == [k |-> "rat", id |-> "", n |-> n, d |-> d]

Zero == Rat(0, 1)

Score(alg, id) == [k |-> alg, id |-> id, n |-> 0, d |-> 1]

----------------------------------------------------------------------------
(* model.Issue, model.Dependency *)

DepBlocks == "blocks"
DepRelated == "related"
DepParentChild == "parent-child"
StatusOpen == "open"
StatusClosed == "closed"

Dep(target, type) == [DependsOnID |-> target, Type |-> type]

\* a nil entry of the slice []*model.Dependency
NilDep == [DependsOnID |-> "<nil>", Type |-> "<nil>"]

Issue(id, status, deps) ==
    [ID |-> id, Status |-> status, Dependencies |-> deps, SourceRepo |-> ""]

isBlockingDep_OnlyBlocks(depType) == depType = DepBlocks

isBlockingDep(depType) ==
    IF depType = "" THEN TRUE ELSE depType = DepBlocks

----------------------------------------------------------------------------
(* NewAnalyzer: nodes get the dense ids 0, 1, 2, ... in input order; an    *)
(* edge u -> v is set for every blocking dependency of u on a known id v.  *)

IssueIDs(iss) == {iss[i].ID : i \in DOMAIN iss}

IdToNode(iss) ==
    [id \in IssueIDs(iss) |-> Max({i \in DOMAIN iss : iss[i].ID = id}) - 1]

NodeToID(iss) == [n \in 0..(Len(iss) - 1) |-> iss[n + 1].ID]

IssueMap(iss) ==
    [id \in IssueIDs(iss) |-> iss[Max({i \in DOMAIN iss : iss[i].ID = id})]]

\* the pairs (u, v) for which NewAnalyzer calls g.SetEdge: every blocking
\* dependency of u on a known id v; setting an edge twice leaves one edge
EdgesSet_SkipsClosed(iss) ==
    UNION {{<<IdToNode(iss)[iss[i].ID], IdToNode(iss)[iss[i].Dependencies[j].DependsOnID]>> :
               j \in {k \in DOMAIN iss[i].Dependencies :
                        /\ iss[i].Dependencies[k] # NilDep
                        /\ isBlockingDep(iss[i].Dependencies[k].Type)
                        /\ \E t \in DOMAIN iss :
                              /\ iss[t].ID = iss[i].Dependencies[k].DependsOnID
                              /\ iss[t].Status # StatusClosed}} :
           i \in DOMAIN iss}

EdgesSet(iss) ==
    UNION {{<<IdToNode(iss)[iss[i].ID], IdToNode(iss)[iss[i].Dependencies[j].DependsOnID]>> :
               j \in {k \in DOMAIN iss[i].Dependencies :
                        /\ iss[i].Dependencies[k] # NilDep
                        /\ isBlockingDep(iss[i].Dependencies[k].Type)
                        /\ iss[i].Dependencies[k].DependsOnID \in IssueIDs(iss)}} :
           i \in DOMAIN iss}

\* simple.DirectedGraph.SetEdge panics ("simple: adding self edge") when the
\* two ends of the edge are the same node
SetEdgePanics(E) == \E e \in E : e[1] = e[2]

GraphEdges(iss) == IF SetEdgePanics(EdgesSet(iss)) THEN {} ELSE EdgesSet(iss)

\* panicked: NewAnalyzer did not return (the panic is not recovered)
NewAnalyzer(iss) ==
    [nodes    |-> 0..(Len(iss) - 1),
     edges    |-> GraphEdges(iss),
     idToNode |-> IdToNode(iss),
     nodeToID |-> NodeToID(iss),
     issueMap |-> IssueMap(iss),
     panicked |-> SetEdgePanics(EdgesSet(iss))]

----------------------------------------------------------------------------
(* Graph queries used by the two phases *)

From(g, u) == {v \in g.nodes : <<u, v>> \in g.edges}

To(g, v) == {u \in g.nodes : <<u, v>> \in g.edges}

RECURSIVE ReachableIn(_, _, _)
ReachableIn(g, S, k) ==
    IF k = 0 THEN S
    ELSE ReachableIn(g, S \cup UNION {From(g, u) : u \in S}, k - 1)

\* v is reachable from u by a path of at least one edge
Reaches(g, u, v) == v \in ReachableIn(g, From(g, u), Cardinality(g.nodes))

\* topo.TarjanSCC found a component of more than one node
HasCycles_Never(g) == FALSE

HasCycles(g) == \E u \in g.nodes : \E v \in g.nodes \ {u} : Reaches(g, u, v) /\ Reaches(g, v, u)

\* topo.Sort: an order with u before v for every edge u -> v; it fails
\* (err != nil) when some component has more than one node.  The order among
\* unrelated nodes follows the iteration order of the node map.
TopoSortOutcomes_AnyOrder(g) ==
    IF HasCycles(g) THEN {} ELSE Orderings(g.nodes)

TopoSortOutcomes(g) ==
    IF HasCycles(g) THEN {}
    ELSE {p \in Orderings(g.nodes) :
            \A i \in DOMAIN p : \A j \in DOMAIN p :
                <<p[i], p[j]>> \in g.edges => i < j}

Reverse_Identity(s) == s

Reverse(s) == [i \in DOMAIN s |-> s[Len(s) + 1 - i]]

----------------------------------------------------------------------------
(* AnalysisConfig.  The four timeouts are durations; a timer of any        *)
(* duration can expire before a sub-worker of unknown running time         *)
(* delivers, so the model keeps no clock and lets either happen.           *)

BetweennessExact == "exact"
BetweennessApproximate == "approximate"

AnalysisConfig(pr, bw, ev, hits, cp, cyc, mode, sample, maxCycles) ==
    [ComputePageRank     |-> pr,
     ComputeBetweenness  |-> bw,
     ComputeEigenvector  |-> ev,
     ComputeHITS         |-> hits,
     ComputeCriticalPath |-> cp,
     ComputeCycles       |-> cyc,
     BetweennessMode          |-> mode,
     BetweennessSampleSize    |-> sample,
     BetweennessIsApproximate |-> FALSE,
     MaxCyclesToStore         |-> maxCycles]

ZeroConfig ==
    AnalysisConfig(FALSE, FALSE, FALSE, FALSE, FALSE, FALSE, "", 0, 0)

\* the configurations explored; parameters of a disabled algorithm are
\* never read and are left at their zero values
ConfigSpace ==
    {AnalysisConfig(pr, bw, ev, hits, cp, cyc, m[1], m[2], mc) :
        pr \in BOOLEAN, bw \in BOOLEAN, ev \in BOOLEAN, hits \in BOOLEAN,
        cp \in BOOLEAN, cyc \in BOOLEAN,
        m \in {<<"", 0>>, <<BetweennessExact, 0>>,
               <<BetweennessApproximate, 0>>, <<BetweennessApproximate, 1>>},
        mc \in {0}}

\* the algorithms that run in a sub-worker under a deadline
DeadlineGuarded(c) ==
    {x \in {"pagerank", "betweenness", "hits", "cycles"} :
        \/ x = "pagerank" /\ c.ComputePageRank
        \/ x = "betweenness" /\ c.ComputeBetweenness
        \/ x = "hits" /\ c.ComputeHITS
        \/ x = "cycles" /\ c.ComputeCycles}

AllEnabled(c) ==
    /\ Cardinality(DeadlineGuarded(c)) = 4
    /\ c.ComputeEigenvector /\ c.ComputeCriticalPath

\* every algorithm enabled (the sub-workers interleave), or at most one
\* deadline-guarded algorithm enabled with any choice of the other settings
Configs ==
    {c \in ConfigSpace :
        /\ ~c.ComputeBetweenness => (c.BetweennessMode = "" /\ c.BetweennessSampleSize = 0)
        /\ c.ComputeBetweenness => c.BetweennessMode # ""
        /\ ~c.ComputeCycles => c.MaxCyclesToStore = 0
        /\ \/ AllEnabled(c) /\ c.BetweennessMode = BetweennessExact
           \/ Cardinality(DeadlineGuarded(c)) <= 1}

----------------------------------------------------------------------------
(* Inputs: n issues named by the first n pool ids, all open, with at most  *)
(* MaxDeps blocking dependencies in total and none on the issue itself.    *)

DepPairs(n) == {p \in (1..n) \X (1..n) : p[1] # p[2]}

DepSets(n) == {E \in SUBSET DepPairs(n) : Cardinality(E) <= MaxDeps}

Targets(E, i) == SetToSortedSeq({p[2] : p \in {q \in E : q[1] = i}})

MakeIssues(n, E) ==
    [i \in 1..n |->
        Issue(IdPool[i], StatusOpen,
              [k \in 1..Len(Targets(E, i)) |-> Dep(IdPool[Targets(E, i)[k]], DepBlocks)])]

\* issue sets that differ only by a renaming of the issues behave alike in
\* phase 2; one representative of each class is explored
RECURSIVE Code(_, _)
Code(n, E) ==
    IF E = {} THEN 0
    ELSE LET p == CHOOSE q \in E : TRUE
         IN 2 ^ ((p[1] - 1) * n + (p[2] - 1)) + Code(n, E \ {p})

Relabel(E, pi) == {<<pi[p[1]], pi[p[2]]>> : p \in E}

Canonical(n, E) == \A pi \in Orderings(1..n) : Code(n, E) <= Code(n, Relabel(E, pi))

GraphInputs ==
    UNION {{MakeIssues(n, E) : E \in {F \in DepSets(n) : Canonical(n, F)}} : n \in 0..MaxIssues}

----------------------------------------------------------------------------
(* GraphStats *)

EmptyMap == [id \in {} |-> Zero]

Phase2Fields ==
    <<"pageRank", "betweenness", "eigenvector", "hubs", "authorities",
      "criticalPathScore", "cycles">>

\* the zero value of the struct: nil maps, nil channel
ZeroStats ==
    [OutDegree |-> [id \in {} |-> 0], InDegree |-> [id \in {} |-> 0],
     TopologicalOrder |-> <<>>, Density |-> Zero,
     NodeCount |-> 0, EdgeCount |-> 0, Config |-> ZeroConfig,
     phase2Ready |-> FALSE, phase2Done |-> "nil",
     pageRank |-> 0, betweenness |-> 0, eigenvector |-> 0, hubs |-> 0,
     authorities |-> 0, criticalPathScore |-> 0, cycles |-> 0]

ZeroLocal ==
    [localPageRank |-> 0, localBetweenness |-> 0, localEigenvector |-> 0,
     localHubs |-> 0, localAuthorities |-> 0, localCriticalPath |-> 0,
     localCycles |-> 0, config |-> ZeroConfig, next |-> 1]

NoSub == [pr |-> "none", bw |-> "none", hits |-> "none", cycles |-> "none"]

NoChans == [prDone |-> <<>>, bwDone |-> <<>>, hitsDone |-> <<>>, cyclesDone |-> <<>>]

\* no query has returned yet
NoRet == [op |-> "none", val |-> <<>>]

\* the TTL given to NewCache, in ticks of the clock
CacheTTL == 2

\* the data hash of a slot that holds nothing
NoHash == [sha256 |-> <<>>]

\* NewCache(ttl): the slot holds no stats handle (0 is the nil handle)
NoCache == [stats |-> 0, dataHash |-> NoHash, computedAt |-> 0, ttl |-> CacheTTL]

Unlocked == [writer |-> FALSE, writerWaiting |-> FALSE, readers |-> 0]

\* a call that has not been made: no handle, no goroutine
NoOther ==
    [stats |-> ZeroStats, mu |-> Unlocked, pc |-> "none", local |-> ZeroLocal,
     sub |-> NoSub, chans |-> NoChans]

\* the zero value of LoadResult
ZeroLoadResult == [RepoName |-> "", Issues |-> <<>>, Error |-> "nil"]

\* LoadAll has not been called
NoLoad ==
    [pc |-> "none", enabled |-> <<>>, cancelled |-> FALSE, mu |-> 0,
     worker |-> <<>>, results |-> <<>>,
     out |-> [issues |-> <<>>, results |-> <<>>, err |-> "nil"]]

\* NewFeedbackStore(beadsDir) with no feedback file yet: an empty cache, a
\* free mutex, no caller inside Save and nothing loaded by a second store
NoStore ==
    [mu |-> "", file |-> <<>>, cache |-> <<>>, caller |-> <<>>, saves |-> <<>>,
     fresh |-> [loaded |-> FALSE, cache |-> <<>>, err |-> "nil"]]

\* computePhase1: degrees, topological order (dependencies first), density
InDegreeOf(an) == [id \in Range(an.nodeToID) |-> Cardinality(To(an, an.idToNode[id]))]

\* a key only for the nodes that have an outgoing edge
OutDegreeOf_OnlySources(an) ==
    [id \in {x \in Range(an.nodeToID) : From(an, an.idToNode[x]) # {}} |->
        Cardinality(From(an, an.idToNode[id]))]

OutDegreeOf(an) == [id \in Range(an.nodeToID) |-> Cardinality(From(an, an.idToNode[id]))]

TopologicalOrderOf(an, sorted) == [i \in DOMAIN sorted |-> an.nodeToID[Reverse(sorted)[i]]]

DensityOf(an) ==
    LET n == Cardinality(DOMAIN an.issueMap)
        e == Cardinality(an.edges)
    IN IF n > 1 THEN Rat(e, n * (n - 1)) ELSE Zero

computePhase1(s, an, sorted) ==
    [s EXCEPT !.InDegree = InDegreeOf(an),
              !.OutDegree = OutDegreeOf(an),
              !.TopologicalOrder = TopologicalOrderOf(an, sorted),
              !.Density = DensityOf(an)]

\* the struct literal of AnalyzeAsyncWithConfig: six fresh maps at heap
\* addresses base+1 .. base+6, cycles nil, an open phase2Done channel
NewStats(an, config, base) ==
    [ZeroStats EXCEPT
        !.NodeCount = Cardinality(DOMAIN an.issueMap),
        !.EdgeCount = Cardinality(an.edges),
        !.Config = config,
        !.phase2Done = "open",
        !.pageRank = base + 1, !.betweenness = base + 2, !.eigenvector = base + 3,
        !.hubs = base + 4, !.authorities = base + 5, !.criticalPathScore = base + 6]

SixEmptyMaps == <<EmptyMap, EmptyMap, EmptyMap, EmptyMap, EmptyMap, EmptyMap>>

\* NewAnalyzer has been called on one of the given issue lists; no handle yet
StartWith(inputs) ==
    /\ issues \in inputs
    /\ a = NewAnalyzer(issues)
    /\ stats = ZeroStats
    /\ mu = Unlocked
    /\ heap = <<>>
    /\ pc = "none"
    /\ local = ZeroLocal
    /\ sub = NoSub
    /\ chans = NoChans
    /\ rpc = [r \in Readers |-> "nostats"]
    /\ waited = [r \in Readers |-> FALSE]
    /\ snaps = <<>>
    /\ ret = NoRet
    /\ cache = NoCache
    /\ now = 0
    /\ log = <<>>
    /\ other = NoOther
    /\ ws = NoLoad
    /\ fb = NoStore

Init == StartWith(GraphInputs)

\* topo.Sort as called by computePhase1: the sorted nodes, or <<>> on error
SortOrEmpty(g) == IF TopoSortOutcomes(g) = {} THEN {<<>>} ELSE TopoSortOutcomes(g)

MarkReady_LeavesOpen(s) == [s EXCEPT !.phase2Ready = TRUE]

\* the empty-graph branch: stats.phase2Ready = true; close(stats.phase2Done)
MarkReady(s) == [s EXCEPT !.phase2Ready = TRUE, !.phase2Done = "closed"]

AnalyzeAsyncWithConfig(config) ==
    /\ pc = "none"
    /\ ~a.panicked
    /\ stats = ZeroStats
    /\ heap' = heap \o SixEmptyMaps
    /\ IF Cardinality(DOMAIN a.issueMap) = 0
       THEN /\ stats' = MarkReady(NewStats(a, config, Len(heap)))
            /\ pc' = "nophase2"
       ELSE /\ \E sorted \in SortOrEmpty(a) :
                 stats' = computePhase1(NewStats(a, config, Len(heap)), a, sorted)
            /\ pc' = "start"
    /\ rpc' = [r \in Readers |-> "idle"]
    /\ local' = [local EXCEPT !.config = config]
    /\ UNCHANGED <<issues, a, mu, sub, chans, waited, snaps, ret, cache, now, log, other, ws, fb>>

----------------------------------------------------------------------------
(* Results of the centrality and cycle routines the sub-workers call.      *)

\* for id, score := range res { m[a.nodeToID[id]] = score }  (ids are unique
\* in the inputs explored, so every key is written once)
ByIssueID(an, res) ==
    [id \in {an.nodeToID[n] : n \in DOMAIN res} |->
        res[CHOOSE n \in DOMAIN res : an.nodeToID[n] = id]]

\* network.PageRank(g, 0.85, 1e-6): one score per node
PageRankOf(an) == [n \in an.nodes |-> Score("pagerank", an.nodeToID[n])]

\* network.Betweenness(g) returns the non-zero centralities only: a node has
\* one iff it is interior to a shortest path, i.e. it lies on a path u->v->w
\* between distinct u, w that are not joined by an edge u->w
BetweennessNodes(an) ==
    {v \in an.nodes : \E u \in To(an, v) : \E w \in From(an, v) :
        u # w /\ <<u, w>> \notin an.edges}

BetweennessOf(an) ==
    [Scores |-> [n \in BetweennessNodes(an) |-> Score("betweenness", an.nodeToID[n])],
     Mode   |-> BetweennessExact]

\* ApproxBetweenness(g, sampleSize): Brandes from sampled sources; which
\* nodes get a non-zero estimate depends on the sample
ApproxBetweennessOutcomes(an) ==
    {[Scores |-> [n \in K |-> Score("approx_betweenness", an.nodeToID[n])],
      Mode   |-> BetweennessApproximate] : K \in SUBSET BetweennessNodes(an)}

BetweennessOutcomes(an, config) ==
    IF config.BetweennessMode = BetweennessApproximate /\ config.BetweennessSampleSize > 0
    THEN ApproxBetweennessOutcomes(an)
    ELSE {BetweennessOf(an)}

\* network.HITS(g, 1e-3): a hub and an authority score per node
HITSOf(an) ==
    [n \in an.nodes |-> [Hub |-> Score("hub", an.nodeToID[n]),
                         Authority |-> Score("authority", an.nodeToID[n])]]

\* computeEigenvector: one value per node
computeEigenvector(an) == [n \in an.nodes |-> Score("eigenvector", an.nodeToID[n])]

\* computeHeights: walk `sorted`; heights[n] = 1 + the largest height already
\* recorded among the nodes with an edge into n
RECURSIVE HeightsUpTo(_, _, _)
HeightsUpTo(an, sorted, k) ==
    IF k = 0 THEN [n \in {} |-> 0]
    ELSE LET h == HeightsUpTo(an, sorted, k - 1)
             nid == sorted[k]
             parents == To(an, nid) \cap DOMAIN h
             maxParentHeight == IF parents = {} THEN 0 ELSE Max({h[q] : q \in parents})
         IN [n \in (DOMAIN h) \cup {nid} |->
                IF n = nid THEN 1 + maxParentHeight ELSE h[n]]

computeHeights_Flat(an, sorted) ==
    ByIssueID(an, [n \in Range(sorted) |-> Rat(1, 1)])

computeHeights(an, sorted) ==
    LET h == HeightsUpTo(an, sorted, Len(sorted))
    IN ByIssueID(an, [n \in DOMAIN h |-> Rat(h[n], 1)])

\* topo.DirectedCyclesIn: the elementary cycles, each listed from its
\* smallest node and closed by repeating it, in depth-first order
RECURSIVE SimplePaths(_, _)
SimplePaths(an, k) ==
    IF k = 1 THEN {<<n>> : n \in an.nodes}
    ELSE {Append(q, v) : <<q, v>> \in
            {x \in SimplePaths(an, k - 1) \X an.nodes :
                /\ x[2] \notin Range(x[1])
                /\ <<x[1][Len(x[1])], x[2]>> \in an.edges}}

CyclePaths(an) ==
    {q \in UNION {SimplePaths(an, k) : k \in 1..Cardinality(an.nodes)} :
        /\ q[1] = Min(Range(q))
        /\ <<q[Len(q)], q[1]>> \in an.edges}

\* depth-first order: a path precedes its extensions, smaller branches first
PathBefore(q, r) ==
    \/ Len(q) < Len(r) /\ \A i \in DOMAIN q : q[i] = r[i]
    \/ \E i \in (DOMAIN q) \cap (DOMAIN r) :
          /\ q[i] < r[i]
          /\ \A j \in 1..(i - 1) : q[j] = r[j]

RECURSIVE PathsInOrder(_)
PathsInOrder(S) ==
    IF S = {} THEN <<>>
    ELSE LET first == CHOOSE q \in S : \A r \in S \ {q} : PathBefore(q, r)
         IN <<first>> \o PathsInOrder(S \ {first})

DirectedCyclesIn(an) ==
    LET ps == PathsInOrder(CyclePaths(an))
    IN [i \in DOMAIN ps |-> Append(ps[i], ps[i][1])]

CycleIDs(an, cycle) == [i \in DOMAIN cycle |-> an.nodeToID[cycle[i]]]

DefaultMaxCycles == 100

MaxCyclesOf(config) ==
    IF config.MaxCyclesToStore = 0 THEN DefaultMaxCycles ELSE config.MaxCyclesToStore

CyclesTruncated == <<"...", "CYCLES_TRUNCATED">>

CycleDetectionTimeout == <<"CYCLE_DETECTION_TIMEOUT">>

CyclesToStore_KeepsAll(an, config, cycles) == [i \in DOMAIN cycles |-> CycleIDs(an, cycles[i])]

\* the id lists appended to localCycles when enumeration delivered `cycles`
CyclesToStore(an, config, cycles) ==
    LET maxCycles == MaxCyclesOf(config)
        truncated == Len(cycles) > maxCycles
        kept == IF truncated THEN SubSeq(cycles, 1, maxCycles) ELSE cycles
        ids == [i \in DOMAIN kept |-> CycleIDs(an, kept[i])]
    IN IF truncated THEN Append(ids, CyclesTruncated) ELSE ids

UniformPageRank_Unnormalised(an) == [id \in DOMAIN an.issueMap |-> Rat(1, 1)]

\* the uniform distribution stored when PageRank timed out
UniformPageRank(an) ==
    [id \in DOMAIN an.issueMap |-> Rat(1, Cardinality(DOMAIN an.issueMap))]

----------------------------------------------------------------------------
(* Heap helpers *)

Store(h, addr, obj) == [h EXCEPT ![addr] = obj]

\* a [][]string with the given rows: one object per row, then the outer slice
AllocRows(h, rows) ==
    h \o rows \o <<[i \in DOMAIN rows |-> Len(h) + i]>>

RowsAt(h, addr) ==
    IF addr = 0 THEN <<>>
    ELSE [i \in DOMAIN h[addr] |-> IF h[addr][i] = 0 THEN <<>> ELSE h[h[addr][i]]]

MapAt(h, addr) == IF addr = 0 THEN EmptyMap ELSE h[addr]

----------------------------------------------------------------------------
(* sync.RWMutex: a writer waits for the readers to leave; readers do not   *)
(* enter while a writer holds the lock or waits for it.                    *)

CanLock_IgnoresReaders(m) == ~m.writer

CanLock(m) == m.readers = 0 /\ ~m.writer

CanRLock_IgnoresWriter(m) == TRUE

CanRLock(m) == ~m.writer /\ ~m.writerWaiting

----------------------------------------------------------------------------
(* computePhase2, the background goroutine *)

\* computePhase2 with its result maps kept in variables shared by all calls
P2Start_SharedMaps ==
    /\ pc = "start"
    /\ IF other.local.localPageRank # 0
       THEN /\ heap' = heap
            /\ local' = [local EXCEPT
                    !.localPageRank = other.local.localPageRank,
                    !.localBetweenness = other.local.localBetweenness,
                    !.localEigenvector = other.local.localEigenvector,
                    !.localHubs = other.local.localHubs,
                    !.localAuthorities = other.local.localAuthorities,
                    !.localCriticalPath = other.local.localCriticalPath,
                    !.localCycles = 0]
       ELSE /\ heap' = heap \o SixEmptyMaps
            /\ local' = [local EXCEPT
                    !.localPageRank = Len(heap) + 1, !.localBetweenness = Len(heap) + 2,
                    !.localEigenvector = Len(heap) + 3, !.localHubs = Len(heap) + 4,
                    !.localAuthorities = Len(heap) + 5, !.localCriticalPath = Len(heap) + 6,
                    !.localCycles = 0]
    /\ pc' = "pagerank"
    /\ UNCHANGED <<issues, a, stats, mu, sub, chans, rpc, waited, snaps, ret, cache, now, log, other, ws, fb>>

\* the seven make(...) / var statements at the top of computePhase2
P2Start ==
    /\ pc = "start"
    /\ heap' = heap \o SixEmptyMaps
    /\ local' = [local EXCEPT
            !.localPageRank = Len(heap) + 1, !.localBetweenness = Len(heap) + 2,
            !.localEigenvector = Len(heap) + 3, !.localHubs = Len(heap) + 4,
            !.localAuthorities = Len(heap) + 5, !.localCriticalPath = Len(heap) + 6,
            !.localCycles = 0]
    /\ pc' = "pagerank"
    /\ UNCHANGED <<issues, a, stats, mu, sub, chans, rpc, waited, snaps, ret, cache, now, log, other, ws, fb>>

PageRankStart ==
    /\ pc = "pagerank"
    /\ IF local.config.ComputePageRank
       THEN /\ sub' = [sub EXCEPT !.pr = "running"]
            /\ pc' = "pagerank_select"
       ELSE /\ pc' = "betweenness"
            /\ UNCHANGED sub
    /\ UNCHANGED <<issues, a, stats, mu, heap, local, chans, rpc, waited, snaps, ret, cache, now, log, other, ws, fb>>

\* go func() { prDone <- network.PageRank(...) }(): the channel has capacity 1
PageRankWorker ==
    /\ sub.pr = "running"
    /\ sub' = [sub EXCEPT !.pr = "done"]
    /\ chans' = [chans EXCEPT !.prDone = <<PageRankOf(a)>>]
    /\ UNCHANGED <<issues, a, stats, mu, heap, pc, local, rpc, waited, snaps, ret, cache, now, log, other, ws, fb>>

PageRankRecv ==
    /\ pc = "pagerank_select"
    /\ chans.prDone # <<>>
    /\ chans' = [chans EXCEPT !.prDone = <<>>]
    /\ heap' = Store(heap, local.localPageRank, ByIssueID(a, chans.prDone[1]))
    /\ pc' = "betweenness"
    /\ UNCHANGED <<issues, a, stats, mu, local, sub, rpc, waited, snaps, ret, cache, now, log, other, ws, fb>>

PageRankTimeout_NoDeadline == FALSE /\ UNCHANGED vars

\* case <-time.After(config.PageRankTimeout)
PageRankTimeout ==
    /\ pc = "pagerank_select"
    /\ heap' = Store(heap, local.localPageRank, UniformPageRank(a))
    /\ pc' = "betweenness"
    /\ UNCHANGED <<issues, a, stats, mu, local, sub, chans, rpc, waited, snaps, ret, cache, now, log, other, ws, fb>>

BetweennessStart ==
    /\ pc = "betweenness"
    /\ IF local.config.ComputeBetweenness
       THEN /\ sub' = [sub EXCEPT !.bw = "running"]
            /\ pc' = "betweenness_select"
       ELSE /\ pc' = "eigenvector"
            /\ UNCHANGED sub
    /\ UNCHANGED <<issues, a, stats, mu, heap, local, chans, rpc, waited, snaps, ret, cache, now, log, other, ws, fb>>

BetweennessWorker_WritesLocal ==
    /\ sub.bw = "running"
    /\ sub' = [sub EXCEPT !.bw = "done"]
    /\ \E result \in BetweennessOutcomes(a, local.config) :
          /\ chans' = [chans EXCEPT !.bwDone = <<result>>]
          /\ heap' = Store(heap, local.localBetweenness, ByIssueID(a, result.Scores))
    /\ UNCHANGED <<issues, a, stats, mu, pc, local, rpc, waited, snaps, ret, cache, now, log, other, ws, fb>>

BetweennessWorker ==
    /\ sub.bw = "running"
    /\ sub' = [sub EXCEPT !.bw = "done"]
    /\ \E result \in BetweennessOutcomes(a, local.config) :
          chans' = [chans EXCEPT !.bwDone = <<result>>]
    /\ UNCHANGED <<issues, a, stats, mu, heap, pc, local, rpc, waited, snaps, ret, cache, now, log, other, ws, fb>>

\* the observed mode is recorded in stats.Config, outside the lock
BetweennessRecv ==
    /\ pc = "betweenness_select"
    /\ chans.bwDone # <<>>
    /\ chans' = [chans EXCEPT !.bwDone = <<>>]
    /\ heap' = Store(heap, local.localBetweenness, ByIssueID(a, chans.bwDone[1].Scores))
    /\ stats' = IF chans.bwDone[1].Mode = BetweennessApproximate
                THEN [stats EXCEPT !.Config.BetweennessIsApproximate = TRUE]
                ELSE stats
    /\ pc' = "eigenvector"
    /\ UNCHANGED <<issues, a, mu, local, sub, rpc, waited, snaps, ret, cache, now, log, other, ws, fb>>

BetweennessTimeout ==
    /\ pc = "betweenness_select"
    /\ pc' = "eigenvector"
    /\ UNCHANGED <<issues, a, stats, mu, heap, local, sub, chans, rpc, waited, snaps, ret, cache, now, log, other, ws, fb>>

EigenvectorStep ==
    /\ pc = "eigenvector"
    /\ heap' = IF local.config.ComputeEigenvector
               THEN Store(heap, local.localEigenvector, ByIssueID(a, computeEigenvector(a)))
               ELSE heap
    /\ pc' = "hits"
    /\ UNCHANGED <<issues, a, stats, mu, local, sub, chans, rpc, waited, snaps, ret, cache, now, log, other, ws, fb>>

HITSEnabled_NoEdgeCheck(an, config) == config.ComputeHITS

\* if config.ComputeHITS && a.g.Edges().Len() > 0
HITSEnabled(an, config) == config.ComputeHITS /\ Cardinality(an.edges) > 0

HITSStart ==
    /\ pc = "hits"
    /\ IF HITSEnabled(a, local.config)
       THEN /\ sub' = [sub EXCEPT !.hits = "running"]
            /\ pc' = "hits_select"
       ELSE /\ pc' = "criticalpath"
            /\ UNCHANGED sub
    /\ UNCHANGED <<issues, a, stats, mu, heap, local, chans, rpc, waited, snaps, ret, cache, now, log, other, ws, fb>>

HITSWorker ==
    /\ sub.hits = "running"
    /\ sub' = [sub EXCEPT !.hits = "done"]
    /\ chans' = [chans EXCEPT !.hitsDone = <<HITSOf(a)>>]
    /\ UNCHANGED <<issues, a, stats, mu, heap, pc, local, rpc, waited, snaps, ret, cache, now, log, other, ws, fb>>

HITSRecv ==
    /\ pc = "hits_select"
    /\ chans.hitsDone # <<>>
    /\ chans' = [chans EXCEPT !.hitsDone = <<>>]
    /\ LET hubAuth == chans.hitsDone[1]
       IN heap' = Store(Store(heap, local.localHubs,
                                ByIssueID(a, [n \in DOMAIN hubAuth |-> hubAuth[n].Hub])),
                        local.localAuthorities,
                        ByIssueID(a, [n \in DOMAIN hubAuth |-> hubAuth[n].Authority]))
    /\ pc' = "criticalpath"
    /\ UNCHANGED <<issues, a, stats, mu, local, sub, rpc, waited, snaps, ret, cache, now, log, other, ws, fb>>

HITSTimeout ==
    /\ pc = "hits_select"
    /\ pc' = "criticalpath"
    /\ UNCHANGED <<issues, a, stats, mu, heap, local, sub, chans, rpc, waited, snaps, ret, cache, now, log, other, ws, fb>>

\* localCriticalPath = a.computeHeights(sorted) binds the local to a new map
CriticalPath ==
    /\ pc = "criticalpath"
    /\ IF local.config.ComputeCriticalPath /\ TopoSortOutcomes(a) # {}
       THEN \E sorted \in TopoSortOutcomes(a) :
               /\ heap' = Append(heap, computeHeights(a, sorted))
               /\ local' = [local EXCEPT !.localCriticalPath = Len(heap) + 1]
       ELSE UNCHANGED <<heap, local>>
    /\ pc' = "cycles"
    /\ UNCHANGED <<issues, a, stats, mu, sub, chans, rpc, waited, snaps, ret, cache, now, log, other, ws, fb>>

CyclesStart ==
    /\ pc = "cycles"
    /\ IF local.config.ComputeCycles /\ HasCycles(a)
       THEN /\ sub' = [sub EXCEPT !.cycles = "running"]
            /\ pc' = "cycles_select"
       ELSE /\ pc' = "lock"
            /\ UNCHANGED sub
    /\ UNCHANGED <<issues, a, stats, mu, heap, local, chans, rpc, waited, snaps, ret, cache, now, log, other, ws, fb>>

\* the same goroutine sending on a channel without buffer: the send needs the
\* coordinator to be receiving
CyclesWorker_Unbuffered ==
    /\ sub.cycles = "running"
    /\ pc = "cycles_select"
    /\ sub' = [sub EXCEPT !.cycles = "done"]
    /\ chans' = [chans EXCEPT !.cyclesDone = <<DirectedCyclesIn(a)>>]
    /\ UNCHANGED <<issues, a, stats, mu, heap, pc, local, rpc, waited, snaps, ret, cache, now, log, other, ws, fb>>

CyclesWorker ==
    /\ sub.cycles = "running"
    /\ sub' = [sub EXCEPT !.cycles = "done"]
    /\ chans' = [chans EXCEPT !.cyclesDone = <<DirectedCyclesIn(a)>>]
    /\ UNCHANGED <<issues, a, stats, mu, heap, pc, local, rpc, waited, snaps, ret, cache, now, log, other, ws, fb>>

CyclesRecv ==
    /\ pc = "cycles_select"
    /\ chans.cyclesDone # <<>>
    /\ chans' = [chans EXCEPT !.cyclesDone = <<>>]
    /\ LET rows == CyclesToStore(a, local.config, chans.cyclesDone[1])
       IN IF rows = <<>>
          THEN UNCHANGED <<heap, local>>
          ELSE /\ heap' = AllocRows(heap, rows)
               /\ local' = [local EXCEPT !.localCycles = Len(heap) + Len(rows) + 1]
    /\ pc' = "lock"
    /\ UNCHANGED <<issues, a, stats, mu, sub, rpc, waited, snaps, ret, cache, now, log, other, ws, fb>>

CyclesTimeout_LeavesEmpty ==
    /\ pc = "cycles_select"
    /\ pc' = "lock"
    /\ UNCHANGED <<issues, a, stats, mu, heap, local, sub, chans, rpc, waited, snaps, ret, cache, now, log, other, ws, fb>>

\* case <-time.After(config.CyclesTimeout)
CyclesTimeout ==
    /\ pc = "cycles_select"
    /\ heap' = AllocRows(heap, <<CycleDetectionTimeout>>)
    /\ local' = [local EXCEPT !.localCycles = Len(heap) + 2]
    /\ pc' = "lock"
    /\ UNCHANGED <<issues, a, stats, mu, sub, chans, rpc, waited, snaps, ret, cache, now, log, other, ws, fb>>

\* stats.mu.Lock(): announce, then enter once the readers have left
LockRequest ==
    /\ pc = "lock"
    /\ mu' = [mu EXCEPT !.writerWaiting = TRUE]
    /\ pc' = "lock_wait"
    /\ UNCHANGED <<issues, a, stats, heap, local, sub, chans, rpc, waited, snaps, ret, cache, now, log, other, ws, fb>>

LockAcquire ==
    /\ pc = "lock_wait"
    /\ CanLock(mu)
    /\ mu' = [mu EXCEPT !.writer = TRUE, !.writerWaiting = FALSE]
    /\ local' = [local EXCEPT !.next = 1]
    /\ pc' = "assign"
    /\ UNCHANGED <<issues, a, stats, heap, sub, chans, rpc, waited, snaps, ret, cache, now, log, other, ws, fb>>

PublishOrder_ReadyFirst ==
    <<"phase2Ready", "pageRank", "betweenness", "eigenvector", "hubs", "authorities",
      "criticalPathScore", "cycles">>

\* the eight assignments between Lock and Unlock, in program order
PublishOrder ==
    <<"pageRank", "betweenness", "eigenvector", "hubs", "authorities",
      "criticalPathScore", "cycles", "phase2Ready">>

LocalFor(l, f) ==
    CASE f = "pageRank"          -> l.localPageRank
      [] f = "betweenness"       -> l.localBetweenness
      [] f = "eigenvector"       -> l.localEigenvector
      [] f = "hubs"              -> l.localHubs
      [] f = "authorities"       -> l.localAuthorities
      [] f = "criticalPathScore" -> l.localCriticalPath
      [] f = "cycles"            -> l.localCycles

Assign ==
    /\ pc = "assign"
    /\ LET f == PublishOrder[local.next]
       IN stats' = IF f = "phase2Ready"
                   THEN [stats EXCEPT !.phase2Ready = TRUE]
                   ELSE [stats EXCEPT ![f] = LocalFor(local, f)]
    /\ local' = [local EXCEPT !.next = local.next + 1]
    /\ pc' = IF local.next = Len(PublishOrder) THEN "unlock" ELSE "assign"
    /\ UNCHANGED <<issues, a, mu, heap, sub, chans, rpc, waited, snaps, ret, cache, now, log, other, ws, fb>>

Unlock ==
    /\ pc = "unlock"
    /\ mu' = [mu EXCEPT !.writer = FALSE]
    /\ pc' = "close"
    /\ UNCHANGED <<issues, a, stats, heap, local, sub, chans, rpc, waited, snaps, ret, cache, now, log, other, ws, fb>>

ClosePoint_BeforeLock(p) == p \in {"lock", "close"}

\* defer close(stats.phase2Done) runs when computePhase2 returns
ClosePoint(p) == p = "close"

CloseDone ==
    /\ ClosePoint(pc)
    /\ pc = "close" \/ stats.phase2Done = "open"
    /\ stats' = [stats EXCEPT !.phase2Done = "closed"]
    /\ pc' = IF pc = "close" THEN "done" ELSE pc
    /\ UNCHANGED <<issues, a, mu, heap, local, sub, chans, rpc, waited, snaps, ret, cache, now, log, other, ws, fb>>

----------------------------------------------------------------------------
(* Consumers.  Every accessor is RLock; defer RUnlock; read.  A consumer   *)
(* inside an accessor is at "rlocked"; what the accessor returns is the    *)
(* value of the operators below in that state.                             *)

AccessorEnter(r) ==
    /\ rpc[r] = "idle"
    /\ CanRLock(mu)
    /\ mu' = [mu EXCEPT !.readers = mu.readers + 1]
    /\ rpc' = [rpc EXCEPT ![r] = "rlocked"]
    /\ UNCHANGED <<issues, a, stats, heap, pc, local, sub, chans, waited, snaps, ret, cache, now, log, other, ws, fb>>

AccessorReturn(r) ==
    /\ rpc[r] = "rlocked"
    /\ mu' = [mu EXCEPT !.readers = mu.readers - 1]
    /\ rpc' = [rpc EXCEPT ![r] = "idle"]
    /\ UNCHANGED <<issues, a, stats, heap, pc, local, sub, chans, waited, snaps, ret, cache, now, log, other, ws, fb>>

\* WaitForPhase2: receive from phase2Done unless it is nil
WaitForPhase2Call(r) ==
    /\ rpc[r] = "idle"
    /\ rpc' = [rpc EXCEPT ![r] = "waiting"]
    /\ UNCHANGED <<issues, a, stats, mu, heap, pc, local, sub, chans, waited, snaps, ret, cache, now, log, other, ws, fb>>

WaitForPhase2Return(r) ==
    /\ rpc[r] = "waiting"
    /\ stats.phase2Done \in {"nil", "closed"}
    /\ rpc' = [rpc EXCEPT ![r] = "idle"]
    /\ waited' = [waited EXCEPT ![r] = TRUE]
    /\ UNCHANGED <<issues, a, stats, mu, heap, pc, local, sub, chans, snaps, ret, cache, now, log, other, ws, fb>>

IsPhase2Ready == stats.phase2Ready

GetScore(m, id) == IF id \in DOMAIN m THEN m[id] ELSE Zero

GetPageRankScore(id) == GetScore(MapAt(heap, stats.pageRank), id)

GetBetweennessScore(id) == GetScore(MapAt(heap, stats.betweenness), id)

GetEigenvectorScore(id) == GetScore(MapAt(heap, stats.eigenvector), id)

GetHubScore(id) == GetScore(MapAt(heap, stats.hubs), id)

GetAuthorityScore(id) == GetScore(MapAt(heap, stats.authorities), id)

GetCriticalPathScore(id) == GetScore(MapAt(heap, stats.criticalPathScore), id)

----------------------------------------------------------------------------

Coordinator ==
    \/ P2Start
    \/ PageRankStart \/ PageRankRecv \/ PageRankTimeout
    \/ BetweennessStart \/ BetweennessRecv \/ BetweennessTimeout
    \/ EigenvectorStep
    \/ HITSStart \/ HITSRecv \/ HITSTimeout
    \/ CriticalPath
    \/ CyclesStart \/ CyclesRecv \/ CyclesTimeout
    \/ LockRequest \/ LockAcquire \/ Assign \/ Unlock \/ CloseDone

SubWorkers == PageRankWorker \/ BetweennessWorker \/ HITSWorker \/ CyclesWorker

Consumer(r) ==
    \/ AccessorEnter(r) \/ AccessorReturn(r)
    \/ WaitForPhase2Call(r) \/ WaitForPhase2Return(r)

Next ==
    \/ \E config \in Configs : AnalyzeAsyncWithConfig(config)
    \/ Coordinator
    \/ SubWorkers
    \/ \E r \in Readers : Consumer(r)

Spec == Init /\ [][Next]_vars

----------------------------------------------------------------------------
(* What the snapshot accessors return in the current state (the contents   *)
(* of the copy; nil reads as empty).                                       *)

PageRank == MapAt(heap, stats.pageRank)

Betweenness == MapAt(heap, stats.betweenness)

Eigenvector == MapAt(heap, stats.eigenvector)

Hubs == MapAt(heap, stats.hubs)

Authorities == MapAt(heap, stats.authorities)

CriticalPathScore == MapAt(heap, stats.criticalPathScore)

Cycles == RowsAt(heap, stats.cycles)

MapFields == {"pageRank", "betweenness", "eigenvector", "hubs", "authorities", "criticalPathScore"}

----------------------------------------------------------------------------
(* Vocabulary of the properties *)

\* a handle of a non-empty graph exists (its phase-2 goroutine was spawned)
Spawned == pc \notin {"none", "nophase2"}

\* a consumer can be reading the protected fields: it holds the read lock,
\* or nobody holds the write lock
Observable == mu.readers > 0 \/ ~mu.writer

AllIDs == Range(IdPool) \cup {UnknownID}

AfterPC(p) ==
    CASE p = "pagerank_select"    -> {"betweenness", "betweenness_select", "eigenvector", "hits",
                                      "hits_select", "criticalpath", "cycles", "cycles_select",
                                      "lock", "lock_wait", "assign", "unlock", "close", "done"}
      [] p = "betweenness_select" -> {"eigenvector", "hits", "hits_select", "criticalpath", "cycles",
                                      "cycles_select", "lock", "lock_wait", "assign", "unlock",
                                      "close", "done"}
      [] p = "hits_select"        -> {"criticalpath", "cycles", "cycles_select", "lock", "lock_wait",
                                      "assign", "unlock", "close", "done"}
      [] p = "cycles_select"      -> {"lock", "lock_wait", "assign", "unlock", "close", "done"}

\* the coordinator left a select through its time.After case: the sub-worker
\* is still running, or its result sits unread in the channel
PageRankTimedOut == pc \in AfterPC("pagerank_select") /\ (sub.pr = "running" \/ chans.prDone # <<>>)

BetweennessTimedOut ==
    pc \in AfterPC("betweenness_select") /\ (sub.bw = "running" \/ chans.bwDone # <<>>)

HITSTimedOut == pc \in AfterPC("hits_select") /\ (sub.hits = "running" \/ chans.hitsDone # <<>>)

CyclesTimedOut ==
    pc \in AfterPC("cycles_select") /\ (sub.cycles = "running" \/ chans.cyclesDone # <<>>)

SomeWaited == \E r \in Readers : waited[r]

Phase1Fields ==
    <<stats.OutDegree, stats.InDegree, stats.TopologicalOrder, stats.Density,
      stats.NodeCount, stats.EdgeCount, stats.Config>>

\* the addresses and contents behind the seven phase-2 fields
Phase2Refs == [i \in DOMAIN Phase2Fields |-> stats[Phase2Fields[i]]]

Phase2Contents == <<PageRank, Betweenness, Eigenvector, Hubs, Authorities, CriticalPathScore, Cycles>>

InitialRefs == [i \in DOMAIN Phase2Fields |-> NewStats(a, stats.Config, 0)[Phase2Fields[i]]]

FinalRefs == [i \in DOMAIN Phase2Fields |-> LocalFor(local, Phase2Fields[i])]

NoContents == <<EmptyMap, EmptyMap, EmptyMap, EmptyMap, EmptyMap, EmptyMap, <<>> >>

----------------------------------------------------------------------------
(* C1: on a non-empty graph, whenever a consumer can read the protected    *)
(* state it is all-or-nothing: with phase2Ready false the seven phase-2    *)
(* fields are the initial empty ones, with phase2Ready true they are the   *)
(* seven values the coordinator computed; never a mixture.                 *)
C1_AllOrNothing ==
    (Spawned /\ Observable) =>
        IF stats.phase2Ready
        THEN Phase2Refs = FinalRefs /\ pc \in {"unlock", "close", "done"}
        ELSE Phase2Refs = InitialRefs /\ Phase2Contents = NoContents

C1_Witness ==
    /\ mu.readers > 0
    /\ pc = "close"
    /\ stats.phase2Ready
    /\ DOMAIN PageRank # {}
    /\ Cycles # <<>>

(* C2: readiness is one-shot: once phase2Ready is true it stays true and  *)
(* no phase-2 field, nor the map or list behind it, changes again.         *)
C2_ReadyIsFinal ==
    [][stats.phase2Ready =>
          /\ stats'.phase2Ready
          /\ Phase2Refs' = Phase2Refs
          /\ Phase2Contents' = Phase2Contents]_vars

C2_Witness ==
    /\ stats.phase2Ready
    /\ pc = "done"
    /\ sub.hits = "done" /\ chans.hitsDone # <<>>
    /\ DOMAIN Eigenvector # {}

(* C3: once WaitForPhase2 has returned to a consumer, IsPhase2Ready is    *)
(* true and the accessors read the final published values.                 *)
C3_WaitImpliesPublished ==
    SomeWaited =>
        /\ IsPhase2Ready
        /\ ~mu.writer
        /\ Spawned => Phase2Refs = FinalRefs

C3_Witness ==
    /\ \E r \in Readers : waited[r] /\ rpc[r] = "rlocked"
    /\ Spawned
    /\ DOMAIN Betweenness # {}

(* C5: after AnalyzeAsyncWithConfig has returned the handle, no phase-1   *)
(* field (degrees, order, density, counts, Config) is written again.       *)
C5_Phase1Frozen == [][pc # "none" => Phase1Fields' = Phase1Fields]_vars

(* C7: while phase 2 is unpublished every per-key accessor returns 0 for  *)
(* every id and every snapshot is empty; once published, per-key accessors *)
(* return 0 for every id outside the issue set.                            *)
C7_ZeroUntilPublished ==
    (pc # "none" /\ Observable) =>
        \A id \in AllIDs :
            (~stats.phase2Ready \/ id \notin IssueIDs(issues)) =>
                /\ GetPageRankScore(id) = Zero
                /\ GetBetweennessScore(id) = Zero
                /\ GetEigenvectorScore(id) = Zero
                /\ GetHubScore(id) = Zero
                /\ GetAuthorityScore(id) = Zero
                /\ GetCriticalPathScore(id) = Zero
                /\ (~stats.phase2Ready => Phase2Contents = NoContents)

C7_Witness ==
    /\ mu.readers > 0
    /\ pc = "lock_wait"
    /\ ~stats.phase2Ready
    /\ DOMAIN MapAt(heap, local.localPageRank) # {}
    /\ local.localCycles # 0

(* C8 as stated: after WaitForPhase2 returns, a snapshot is non-empty iff *)
(* its algorithm was enabled and did not time out (PageRank also after a   *)
(* timeout), on every non-empty graph.                                     *)
C8_NonEmptyIffCompleted ==
    (SomeWaited /\ Spawned) =>
        /\ (PageRank # EmptyMap) <=> stats.Config.ComputePageRank
        /\ (Betweenness # EmptyMap) <=> (stats.Config.ComputeBetweenness /\ ~BetweennessTimedOut)
        /\ (Eigenvector # EmptyMap) <=> stats.Config.ComputeEigenvector
        /\ (Hubs # EmptyMap) <=> (stats.Config.ComputeHITS /\ ~HITSTimedOut)
        /\ (Authorities # EmptyMap) <=> (stats.Config.ComputeHITS /\ ~HITSTimedOut)
        /\ (CriticalPathScore # EmptyMap) <=> stats.Config.ComputeCriticalPath
        /\ (Cycles # <<>>) <=> (stats.Config.ComputeCycles /\ ~CyclesTimedOut)

UsesExactBetweenness(config) ==
    ~(config.BetweennessMode = BetweennessApproximate /\ config.BetweennessSampleSize > 0)

(* C8 amended: after WaitForPhase2 returns, PageRank and eigenvector are  *)
(* non-empty iff enabled; hubs and authorities iff HITS is enabled, the    *)
(* graph has an edge and HITS did not time out; critical path iff enabled  *)
(* and the graph is acyclic; cycles iff enabled and the graph has a cycle  *)
(* (a timeout leaves its sentinel); betweenness only if enabled and not    *)
(* timed out, and in exact mode iff moreover some issue lies inside a      *)
(* shortest path.                                                          *)
C8_NonEmptyAmended ==
    (SomeWaited /\ Spawned) =>
        /\ (PageRank # EmptyMap) <=> stats.Config.ComputePageRank
        /\ (Eigenvector # EmptyMap) <=> stats.Config.ComputeEigenvector
        /\ (Hubs # EmptyMap) <=>
              (stats.Config.ComputeHITS /\ a.edges # {} /\ ~HITSTimedOut)
        /\ (Authorities # EmptyMap) <=>
              (stats.Config.ComputeHITS /\ a.edges # {} /\ ~HITSTimedOut)
        /\ (CriticalPathScore # EmptyMap) <=>
              (stats.Config.ComputeCriticalPath /\ ~HasCycles(a))
        /\ (Cycles # <<>>) <=> (stats.Config.ComputeCycles /\ HasCycles(a))
        /\ (Betweenness # EmptyMap) =>
              (stats.Config.ComputeBetweenness /\ ~BetweennessTimedOut)
        /\ UsesExactBetweenness(stats.Config) =>
              ((Betweenness # EmptyMap) <=>
                  (stats.Config.ComputeBetweenness /\ ~BetweennessTimedOut
                      /\ BetweennessNodes(a) # {}))

C8_Witness ==
    /\ SomeWaited
    /\ stats.Config.ComputeHITS /\ a.edges # {} /\ HITSTimedOut /\ Hubs = EmptyMap
    /\ stats.Config.ComputePageRank /\ PageRankTimedOut /\ PageRank # EmptyMap
    /\ stats.Config.ComputeBetweenness /\ ~BetweennessTimedOut /\ Betweenness # EmptyMap
    /\ stats.Config.ComputeCriticalPath /\ CriticalPathScore # EmptyMap

(* C9: when PageRank is enabled and its deadline fires first, the         *)
(* published map has exactly the issue ids as keys, each with value 1/|V|. *)
C9_UniformOnTimeout ==
    (stats.phase2Ready /\ PageRankTimedOut) =>
        /\ DOMAIN PageRank = IssueIDs(issues)
        /\ \A id \in IssueIDs(issues) : PageRank[id] = Rat(1, Cardinality(IssueIDs(issues)))

C9_Witness ==
    /\ stats.phase2Ready
    /\ PageRankTimedOut
    /\ Len(issues) = 3
    /\ SomeWaited

(* C10: when the betweenness (HITS) deadline fires first, the published   *)
(* betweenness map (hub and authority maps) is empty, whether or not the   *)
(* sub-worker delivers later; the late result stays in its channel.        *)
C10_LateResultDiscarded ==
    /\ (BetweennessTimedOut /\ pc \in {"unlock", "close", "done"}) =>
            (Betweenness = EmptyMap /\ ~stats.Config.BetweennessIsApproximate)
    /\ (HITSTimedOut /\ pc \in {"unlock", "close", "done"}) =>
            (Hubs = EmptyMap /\ Authorities = EmptyMap)
    /\ BetweennessTimedOut => MapAt(heap, local.localBetweenness) = EmptyMap
    /\ HITSTimedOut =>
            /\ MapAt(heap, local.localHubs) = EmptyMap
            /\ MapAt(heap, local.localAuthorities) = EmptyMap

C10_Witness ==
    /\ pc = "done"
    /\ sub.bw = "done" /\ chans.bwDone # <<>>
    /\ DOMAIN chans.bwDone[1].Scores # {}
    /\ sub.hits = "done" /\ chans.hitsDone # <<>>
    /\ Betweenness = EmptyMap /\ Hubs = EmptyMap

----------------------------------------------------------------------------
(* Scheduling: the goroutine of computePhase2 keeps running, a timer       *)
(* started by time.After expires, an accessor that holds the read lock     *)
(* returns, and a receiver on a closed channel is woken.  Nothing is       *)
(* assumed about the sub-workers: they may never deliver.                  *)
\* Eigenvector and critical path are straight-line steps and the betweenness
\* mode only selects the routine of a sub-worker that may never finish; the
\* liveness specification takes the configurations of Configs with those
\* three settings tied.
LiveConfigs ==
    {c \in Configs :
        /\ c.ComputeEigenvector = c.ComputeCriticalPath
        /\ c.ComputeCriticalPath = c.ComputePageRank
        /\ c.BetweennessMode \in {"", BetweennessExact}}

LiveNext ==
    \/ \E config \in LiveConfigs : AnalyzeAsyncWithConfig(config)
    \/ Coordinator
    \/ SubWorkers
    \/ \E r \in Readers : Consumer(r)

LiveMaxIssues == 2

LiveInit == Init /\ Len(issues) <= LiveMaxIssues

LiveSpec ==
    /\ LiveInit
    /\ [][LiveNext]_vars
    /\ WF_vars(Coordinator)
    /\ \A r \in Readers : WF_vars(AccessorReturn(r))
    /\ \A r \in Readers : WF_vars(WaitForPhase2Return(r))

(* C4: on a non-empty issue set the phase-2 goroutine always publishes    *)
(* and closes phase2Done, and every caller blocked in WaitForPhase2 is     *)
(* released, also when sub-workers never deliver.                          *)
C4_EventuallyPublished ==
    /\ (pc = "start") ~> (stats.phase2Ready /\ stats.phase2Done = "closed")
    /\ \A r \in Readers : (rpc[r] = "waiting") ~> waited[r]

C4_Witness ==
    /\ pc = "done"
    /\ SomeWaited
    /\ sub.pr = "running" /\ sub.bw = "running"
    /\ a.edges = {} /\ Len(issues) > 1

----------------------------------------------------------------------------
(* Snapshot accessors as seen by the caller: the value returned is a new   *)
(* map or slice; the caller owns it and may write to it.  The handles are  *)
(* built by NewGraphStatsForTest, ready from the start, from caller-       *)
(* supplied maps and cycles.                                               *)

\* cp := make(map...); for k, v := range m { cp[k] = v }   (nil stays nil)
CopyMap_Alias(h, addr) == [heap |-> h, ref |-> addr]

CopyMap(h, addr) ==
    IF addr = 0 THEN [heap |-> h, ref |-> 0]
    ELSE [heap |-> Append(h, h[addr]), ref |-> Len(h) + 1]

\* cp := make([][]string, len); cp[i] = append([]string(nil), c...)
CopyRows(h, addr) ==
    IF addr = 0 THEN [heap |-> h, ref |-> 0]
    ELSE [heap |-> AllocRows(h, RowsAt(h, addr)), ref |-> Len(h) + Len(h[addr]) + 1]

SnapshotReturn(r, f) ==
    /\ rpc[r] = "rlocked"
    /\ Len(snaps) < MaxSnaps
    /\ LET c == IF f = "cycles" THEN CopyRows(heap, stats.cycles) ELSE CopyMap(heap, stats[f])
       IN /\ heap' = c.heap
          /\ snaps' = Append(snaps, [field |-> f, ref |-> c.ref, writes |-> 0])
    /\ mu' = [mu EXCEPT !.readers = mu.readers - 1]
    /\ rpc' = [rpc EXCEPT ![r] = "idle"]
    /\ UNCHANGED <<issues, a, stats, pc, local, sub, chans, waited, ret, cache, now, log, other, ws, fb>>

RECURSIVE TotalWrites(_)
TotalWrites(ss) == IF ss = <<>> THEN 0 ELSE Head(ss).writes + TotalWrites(Tail(ss))

Junk == Rat(7, 1)

MutationIDs == {IdPool[1], UnknownID}

\* m[id] = v  and  delete(m, id)  on a returned map
MutatedMaps(m) ==
    {[k \in (DOMAIN m) \cup {id} |-> IF k = id THEN Junk ELSE m[k]] : id \in MutationIDs}
        \cup {[k \in (DOMAIN m) \ {id} |-> m[k]] : id \in DOMAIN m}

MutateMap(i) ==
    /\ i \in DOMAIN snaps
    /\ snaps[i].field # "cycles"
    /\ snaps[i].ref # 0
    /\ TotalWrites(snaps) < MaxMutations
    /\ \E m \in MutatedMaps(heap[snaps[i].ref]) : heap' = Store(heap, snaps[i].ref, m)
    /\ snaps' = [snaps EXCEPT ![i].writes = @ + 1]
    /\ UNCHANGED <<issues, a, stats, mu, pc, local, sub, chans, rpc, waited, ret, cache, now, log, other, ws, fb>>

\* cp[k] = nil  and  cp[k][j] = "X"  on a returned cycle list
MutateCycles(i) ==
    /\ i \in DOMAIN snaps
    /\ snaps[i].field = "cycles"
    /\ snaps[i].ref # 0
    /\ TotalWrites(snaps) < MaxMutations
    /\ LET outer == heap[snaps[i].ref]
       IN \E k \in DOMAIN outer :
            \/ heap' = Store(heap, snaps[i].ref, [outer EXCEPT ![k] = 0])
            \/ /\ outer[k] # 0
               /\ \E j \in DOMAIN heap[outer[k]] :
                     heap' = Store(heap, outer[k], [heap[outer[k]] EXCEPT ![j] = "X"])
    /\ snaps' = [snaps EXCEPT ![i].writes = @ + 1]
    /\ UNCHANGED <<issues, a, stats, mu, pc, local, sub, chans, rpc, waited, ret, cache, now, log, other, ws, fb>>

\* arguments of NewGraphStatsForTest: nil, or a map over some of the first
\* SnapMaxKeys ids for each of the six maps; nil, or up to SnapMaxKeys
\* cycles for the cycle list
SnapMaxKeys == 1

TestKeys == {IdPool[i] : i \in 1..SnapMaxKeys}

NilArg == [nil |-> TRUE]

TestMapArgs == {NilArg} \cup {[nil |-> FALSE, keys |-> S] : S \in SUBSET TestKeys}

TestCycleArgs ==
    {NilArg} \cup
        {[nil |-> FALSE, rows |-> [i \in 1..n |-> <<IdPool[i], IdPool[i + 1], IdPool[i]>>]] :
            n \in 0..SnapMaxKeys}

\* the struct literal of NewGraphStatsForTest with its channel closed; the
\* supplied maps are at heap addresses 1..6, then the rows of the cycle list
NewGraphStatsForTest(m, c) ==
    LET maps == IF m.nil THEN <<>>
                ELSE [i \in 1..6 |-> [id \in m.keys |-> Score(Phase2Fields[i], id)]]
        ref(i) == IF m.nil THEN 0 ELSE i
    IN [heap |-> IF c.nil THEN maps ELSE AllocRows(maps, c.rows),
        stats |-> [ZeroStats EXCEPT
                      !.phase2Done = "closed", !.phase2Ready = TRUE,
                      !.pageRank = ref(1), !.betweenness = ref(2),
                      !.eigenvector = ref(3), !.hubs = ref(4),
                      !.authorities = ref(5), !.criticalPathScore = ref(6),
                      !.cycles = IF c.nil THEN 0 ELSE Len(maps) + Len(c.rows) + 1]]

SnapInit ==
    /\ issues = <<>>
    /\ a = NewAnalyzer(issues)
    /\ \E m \in TestMapArgs : \E c \in TestCycleArgs :
          /\ stats = NewGraphStatsForTest(m, c).stats
          /\ heap = NewGraphStatsForTest(m, c).heap
    /\ mu = Unlocked
    /\ pc = "none"
    /\ local = ZeroLocal
    /\ sub = NoSub
    /\ chans = NoChans
    /\ rpc = [r \in Readers |-> "idle"]
    /\ waited = [r \in Readers |-> FALSE]
    /\ snaps = <<>>
    /\ ret = NoRet
    /\ cache = NoCache
    /\ now = 0
    /\ log = <<>>
    /\ other = NoOther
    /\ ws = NoLoad
    /\ fb = NoStore

SnapNext ==
    \/ \E r \in Readers : AccessorEnter(r) \/ AccessorReturn(r)
    \/ \E r \in Readers : \E f \in Range(Phase2Fields) : SnapshotReturn(r, f)
    \/ \E i \in 1..MaxSnaps : MutateMap(i) \/ MutateCycles(i)

SnapSpec == SnapInit /\ [][SnapNext]_vars

SnapContent(ss, h, i) ==
    IF ss[i].field = "cycles" THEN <<"cycles", RowsAt(h, ss[i].ref)>>
    ELSE <<"map", MapAt(h, ss[i].ref)>>

(* C6: a write through a returned snapshot (insert, overwrite, delete, or *)
(* a write to an element or a row of a returned cycle list) changes        *)
(* neither what any accessor returns afterwards nor the contents of any    *)
(* other snapshot.                                                         *)
C6_SnapshotsIndependent ==
    [][stats' = stats =>
          /\ Phase2Contents' = Phase2Contents
          /\ \A i \in DOMAIN snaps :
                snaps'[i].writes = snaps[i].writes =>
                    SnapContent(snaps', heap', i) = SnapContent(snaps, heap, i)]_vars

C6_Witness ==
    /\ Len(snaps) = 2
    /\ snaps[1].field = "cycles" /\ snaps[2].field = "cycles"
    /\ snaps[1].writes = 1
    /\ stats.phase2Ready
    /\ Cycles # <<>>
    /\ RowsAt(heap, snaps[1].ref) # Cycles
    /\ RowsAt(heap, snaps[2].ref) = Cycles

----------------------------------------------------------------------------
(* Cycle enumeration with a small MaxCyclesToStore: graphs of up to        *)
(* CycMaxIssues issues and CycMaxDeps blocking dependencies (enough for     *)
(* several cycles), with cycle detection the only algorithm enabled and     *)
(* MaxCyclesToStore from 0 (the default) to CycMaxStore.                    *)

CycMaxIssues == 3
CycMaxDeps == 4
CycMaxStore == 2

CycleInputs ==
    UNION {{MakeIssues(n, E) :
               E \in {F \in SUBSET DepPairs(n) : Cardinality(F) <= CycMaxDeps /\ Canonical(n, F)}} :
           n \in 1..CycMaxIssues}

CycConfigs ==
    {AnalysisConfig(FALSE, FALSE, FALSE, FALSE, FALSE, TRUE, "", 0, mc) : mc \in 0..CycMaxStore}

CycInit == StartWith(CycleInputs)

\* the steps of computePhase2 taken when only cycle detection is enabled
CycCoordinator ==
    \/ P2Start
    \/ PageRankStart \/ BetweennessStart \/ EigenvectorStep \/ HITSStart \/ CriticalPath
    \/ CyclesStart \/ CyclesRecv \/ CyclesTimeout
    \/ LockRequest \/ LockAcquire \/ Assign \/ Unlock \/ CloseDone

CycNext ==
    \/ \E config \in CycConfigs : AnalyzeAsyncWithConfig(config)
    \/ CycCoordinator
    \/ CyclesWorker
    \/ \E r \in Readers : AccessorEnter(r) \/ AccessorReturn(r)

CycSpec == CycInit /\ [][CycNext]_vars

\* the id lists of every elementary cycle, in enumeration order
EnumeratedCycles == [i \in DOMAIN DirectedCyclesIn(a) |-> CycleIDs(a, DirectedCyclesIn(a)[i])]

\* Config.MaxCyclesToStore, 0 meaning 100
StoreLimit == IF stats.Config.MaxCyclesToStore = 0 THEN 100 ELSE stats.Config.MaxCyclesToStore

\* phase 2 is published and cycle enumeration ran to completion
EnumerationPublished ==
    /\ Spawned /\ stats.phase2Ready
    /\ stats.Config.ComputeCycles /\ HasCycles(a) /\ ~CyclesTimedOut

(* C11 as stated: when enumeration completes with more cycles than         *)
(* MaxCyclesToStore (0 meaning 100) the published list is the first         *)
(* MaxCyclesToStore cycles followed by the entry ["CYCLES_TRUNCATED"];      *)
(* otherwise it is all the cycles and no sentinel.                          *)
C11_TruncationAsStated ==
    EnumerationPublished =>
        Cycles = IF Len(EnumeratedCycles) > StoreLimit
                 THEN Append(SubSeq(EnumeratedCycles, 1, StoreLimit), <<"CYCLES_TRUNCATED">>)
                 ELSE EnumeratedCycles

(* C11 amended: the same, with the sentinel entry equal to                 *)
(* ["...", "CYCLES_TRUNCATED"].                                             *)
C11_TruncationAmended ==
    EnumerationPublished =>
        Cycles = IF Len(EnumeratedCycles) > StoreLimit
                 THEN Append(SubSeq(EnumeratedCycles, 1, StoreLimit), <<"...", "CYCLES_TRUNCATED">>)
                 ELSE EnumeratedCycles

C11_Witness ==
    /\ EnumerationPublished
    /\ Len(EnumeratedCycles) > StoreLimit
    /\ Len(Cycles) = StoreLimit + 1
    /\ Cycles[Len(Cycles)] = <<"...", "CYCLES_TRUNCATED">>
    /\ Cycles[1] = EnumeratedCycles[1]

(* C12: with cycle detection enabled and a component of more than one      *)
(* node, when enumeration does not finish before the deadline the           *)
(* published cycle list is the single entry ["CYCLE_DETECTION_TIMEOUT"],    *)
(* with nothing of the enumeration in it.                                   *)
C12_TimeoutSentinelOnly ==
    (Spawned /\ stats.phase2Ready /\ stats.Config.ComputeCycles /\ HasCycles(a) /\ CyclesTimedOut)
        => Cycles = << <<"CYCLE_DETECTION_TIMEOUT">> >>

C12_Witness ==
    /\ Spawned /\ stats.phase2Ready /\ CyclesTimedOut
    /\ chans.cyclesDone # <<>>
    /\ Len(EnumeratedCycles) >= 2
    /\ Cycles = << <<"CYCLE_DETECTION_TIMEOUT">> >>

(* C13: on an empty issue set the handle is ready as soon as it is          *)
(* returned: IsPhase2Ready is true, phase2Done is closed so WaitForPhase2   *)
(* does not block, no worker or sub-worker exists, TopologicalOrder is      *)
(* empty, Density is 0 and every snapshot accessor returns an empty result. *)
C13_EmptyInputReady ==
    (Len(issues) = 0 /\ pc # "none") =>
        /\ IsPhase2Ready
        /\ stats.phase2Done = "closed"
        /\ pc = "nophase2" /\ sub = NoSub
        /\ stats.TopologicalOrder = <<>>
        /\ stats.Density = Zero
        /\ Phase2Contents = NoContents

C13_Witness ==
    /\ Len(issues) = 0
    /\ pc = "nophase2"
    /\ SomeWaited
    /\ IsPhase2Ready

----------------------------------------------------------------------------
(* Queries on the analyzer and the phase-1 fields, on issue lists with      *)
(* every status and dependency kind: up to RichMaxIssues issues and         *)
(* RichMaxDeps dependencies in total, each on an issue of the list (the     *)
(* issue itself included) or on an unknown id, of kind blocks, empty,       *)
(* related or parent-child.                                                 *)

RichMaxIssues == 2
RichMaxDeps == 2

StatusInProgress == "in_progress"

Statuses == <<StatusOpen, StatusInProgress, StatusClosed>>

DepTypes == <<DepBlocks, "", DepRelated, DepParentChild>>

\* a dependency of issue d[1] on target d[2] (n + 1: the unknown id) of kind d[3]
RichDeps(n) == (1..n) \X (1..(n + 1)) \X (1..Len(DepTypes))

\* the c-th element of RichDeps(n), c in 1..Cardinality(RichDeps(n))
RichDep(n, c) ==
    <<((c - 1) \div ((n + 1) * Len(DepTypes))) + 1,
      (((c - 1) \div Len(DepTypes)) % (n + 1)) + 1,
      ((c - 1) % Len(DepTypes)) + 1>>

\* the strictly increasing sequences of at most k numbers of 1..m
RECURSIVE IncreasingSeqs(_, _)
IncreasingSeqs(m, k) ==
    IF k = 0 THEN {<<>>}
    ELSE LET P == IncreasingSeqs(m, k - 1)
         IN P \cup UNION {{Append(q, x) : x \in (IF q = <<>> THEN 1 ELSE q[Len(q)] + 1)..m} :
                             q \in {r \in P : Len(r) = k - 1}}

\* the sets of at most k elements of RichDeps(n)
SubsetsUpTo(n, k) ==
    {{RichDep(n, q[i]) : i \in DOMAIN q} : q \in IncreasingSeqs(Cardinality(RichDeps(n)), k)}

\* renaming the issues changes no result, so statuses are listed in the
\* order of Statuses
Sorted(st) == \A i \in DOMAIN st : \A j \in DOMAIN st : i < j => st[i] <= st[j]

TargetID(n, t) == IF t = n + 1 THEN UnknownID ELSE IdPool[t]

\* the dependency list of issue i: its dependencies in D, by target and kind
RichDepList(n, D, i) ==
    LET codes == SetToSortedSeq({d[2] * (Len(DepTypes) + 1) + d[3] : d \in {e \in D : e[1] = i}})
    IN [k \in DOMAIN codes |->
           Dep(TargetID(n, codes[k] \div (Len(DepTypes) + 1)),
               DepTypes[codes[k] % (Len(DepTypes) + 1)])]

MakeRichIssues(n, st, D) ==
    [i \in 1..n |-> Issue(IdPool[i], Statuses[st[i]], RichDepList(n, D, i))]

\* the analyzer is built from one issue list with statuses among the indices S
\* of Statuses and any dependencies
RichInit(S) ==
    \E n \in 0..RichMaxIssues : \E st \in {f \in [1..n -> S] : Sorted(f)} :
        \E D \in SubsetsUpTo(n, RichMaxDeps) : StartWith({MakeRichIssues(n, st, D)})

\* the chain of three open issues: A depends on B, B depends on C
ChainABC ==
    <<Issue("A", StatusOpen, <<Dep("B", DepBlocks)>>),
      Issue("B", StatusOpen, <<Dep("C", DepBlocks)>>),
      Issue("C", StatusOpen, <<>>)>>

Blocked_ByMissing(an, issue) ==
    \E j \in DOMAIN issue.Dependencies :
        /\ isBlockingDep(issue.Dependencies[j].Type)
        /\ \/ issue.Dependencies[j].DependsOnID \notin DOMAIN an.issueMap
           \/ an.issueMap[issue.Dependencies[j].DependsOnID].Status # StatusClosed

\* isBlocked: some blocking dependency has a known target that is not closed
Blocked(an, issue) ==
    \E j \in DOMAIN issue.Dependencies :
        /\ isBlockingDep(issue.Dependencies[j].Type)
        /\ issue.Dependencies[j].DependsOnID \in DOMAIN an.issueMap
        /\ an.issueMap[issue.Dependencies[j].DependsOnID].Status # StatusClosed

\* GetActionableIssues: the slice is built while ranging over issueMap, so
\* its order is any order of the issues kept
GetActionableIssues(an) ==
    LET keep == {id \in DOMAIN an.issueMap :
                    an.issueMap[id].Status # StatusClosed /\ ~Blocked(an, an.issueMap[id])}
    IN {[i \in DOMAIN o |-> an.issueMap[o[i]]] : o \in Orderings(keep)}

\* the dependency is blocking and its target is a known issue that is not closed
OpenBlocker(an, dep) ==
    /\ isBlockingDep(dep.Type)
    /\ dep.DependsOnID \in DOMAIN an.issueMap
    /\ an.issueMap[dep.DependsOnID].Status # StatusClosed

\* the loop over issue.Dependencies reads dep.Type of a nil entry: it reaches
\* the entry when no earlier dependency made it break
ReachesNil(an, issue) ==
    \E j \in DOMAIN issue.Dependencies :
        /\ issue.Dependencies[j] = NilDep
        /\ \A k \in 1..(j - 1) : ~OpenBlocker(an, issue.Dependencies[k])

\* GetActionableIssues dereferences a nil dependency of some issue that is not closed
GetActionableIssuesPanics(an) ==
    \E id \in DOMAIN an.issueMap :
        an.issueMap[id].Status # StatusClosed /\ ReachesNil(an, an.issueMap[id])

Panic(op) == [op |-> "panic", val |-> <<op>>]

GetActionableIssuesCall ==
    /\ ~a.panicked
    /\ ret = NoRet
    /\ IF GetActionableIssuesPanics(a)
       THEN ret' = Panic("GetActionableIssues")
       ELSE \E v \in GetActionableIssues(a) : ret' = [op |-> "GetActionableIssues", val |-> v]
    /\ UNCHANGED <<issues, a, stats, mu, heap, pc, local, sub, chans, rpc, waited, snaps, cache, now, log, other, ws, fb>>

QueryInit == RichInit(DOMAIN Statuses)

QueryNext == GetActionableIssuesCall

QuerySpec == QueryInit /\ [][QueryNext]_vars

\* Phase 1 alone: AnalyzeAsyncWithConfig runs computePhase1 before it returns
\* the handle; for the graph only the dependencies matter, so every issue is
\* open.  The inputs are the rich lists, the chain and every graph shape.
Phase1Init == RichInit({1}) \/ StartWith({ChainABC}) \/ StartWith(GraphInputs)

Phase1Next == AnalyzeAsyncWithConfig(ZeroConfig)

Phase1Spec == Phase1Init /\ [][Phase1Next]_vars

\* issue i has a dependency of kind blocks or empty on the id v
DependsOn(i, v) ==
    \E j \in DOMAIN issues[i].Dependencies :
        /\ issues[i].Dependencies[j].DependsOnID = v
        /\ issues[i].Dependencies[j].Type \in {"blocks", ""}

IndexOf(id) == CHOOSE i \in DOMAIN issues : issues[i].ID = id

\* the issues the claim calls actionable
ExpectedActionable ==
    {issues[i] : i \in {k \in DOMAIN issues :
        /\ issues[k].Status # "closed"
        /\ \A v \in IssueIDs(issues) : DependsOn(k, v) => issues[IndexOf(v)].Status = "closed"}}

(* C14: GetActionableIssues returns exactly the issues that are not closed *)
(* and whose every dependency of kind blocks or empty on an id of the set   *)
(* has a closed target; dependencies on missing ids and of kind related or  *)
(* parent-child never block, and no closed issue is returned.               *)
C14_ActionableExact ==
    ret.op = "GetActionableIssues" =>
        /\ Range(ret.val) = ExpectedActionable
        /\ Len(ret.val) = Cardinality(ExpectedActionable)
        /\ \A k \in DOMAIN ret.val : ret.val[k].Status # "closed"

C14_Witness ==
    /\ ret.op = "GetActionableIssues"
    /\ Len(issues) = 2
    /\ Len(ret.val) = 1 /\ ret.val[1].ID = "A"
    /\ issues[1].Status = "in_progress"
    /\ issues[2].Status = "closed"
    /\ Len(issues[1].Dependencies) = 2
    /\ issues[1].Dependencies[1] = Dep("B", "blocks")
    /\ issues[1].Dependencies[2] = Dep(UnknownID, "blocks")

----------------------------------------------------------------------------
(* Degrees and topological order of the handle (Phase 1).                  *)

\* the pairs <<i, v>>: issue i has a blocking dependency on the id v of the set
ExpectedEdges ==
    {x \in (DOMAIN issues) \X IssueIDs(issues) : DependsOn(x[1], x[2])}

(* C15: with unique ids and no self-dependency, OutDegree[u] is the number  *)
(* of distinct ids v of the set on which u has a dependency of kind blocks  *)
(* or empty, InDegree[v] is the number of distinct such u, and EdgeCount is *)
(* the number of such pairs: dependencies of another kind, on ids not in    *)
(* the set, or repeated on one target change none of them.                  *)
C15_DegreesExact ==
    pc # "none" =>
        /\ \A i \in DOMAIN issues :
              /\ stats.OutDegree[issues[i].ID] =
                    Cardinality({v \in IssueIDs(issues) : DependsOn(i, v)})
              /\ stats.InDegree[issues[i].ID] =
                    Cardinality({u \in DOMAIN issues : DependsOn(u, issues[i].ID)})
        /\ stats.EdgeCount = Cardinality(ExpectedEdges)

\* issue A repeats its dependency on B, once as blocks and once with no kind
C15_Witness ==
    /\ pc # "none"
    /\ Len(issues) = 2
    /\ issues[1].Dependencies = <<Dep("B", DepBlocks), Dep("B", "")>>
    /\ stats.OutDegree["A"] = 1
    /\ stats.InDegree["B"] = 1
    /\ stats.EdgeCount = 1

\* some issue reaches itself along blocking dependencies
BlockingCycle == \E u \in a.nodes : Reaches(a, u, u)

\* the places of the id in TopologicalOrder
Places(id) == {k \in DOMAIN stats.TopologicalOrder : stats.TopologicalOrder[k] = id}

(* C16: when the blocking graph is acyclic, TopologicalOrder holds every    *)
(* issue id exactly once and, for every issue u with a blocking dependency  *)
(* on v, v comes before u; when the graph has a cycle, TopologicalOrder is  *)
(* empty.                                                                   *)
C16_TopologicalOrder ==
    pc # "none" =>
        IF BlockingCycle
        THEN stats.TopologicalOrder = <<>>
        ELSE /\ \A i \in DOMAIN issues : Cardinality(Places(issues[i].ID)) = 1
             /\ Len(stats.TopologicalOrder) = Len(issues)
             /\ \A x \in ExpectedEdges :
                   \A ku \in Places(issues[x[1]].ID) : \A kv \in Places(x[2]) : kv < ku

\* three issues, two blocking dependencies, no cycle: the order is published
C16_Witness ==
    /\ pc # "none"
    /\ Len(issues) = 3
    /\ Cardinality(ExpectedEdges) = 2
    /\ ~BlockingCycle
    /\ Len(stats.TopologicalOrder) = 3

(* C17, as stated: for the open issues A, B, C given in that order, with A  *)
(* depending on B and B on C by blocks, the TopologicalOrder of the handle  *)
(* is exactly the sequence A, B, C.                                         *)
C17_ChainOrderAsStated ==
    (issues = ChainABC /\ pc # "none") => stats.TopologicalOrder = <<"A", "B", "C">>

(* C17, amended: for that chain the TopologicalOrder of the handle is       *)
(* exactly the sequence C, B, A: every issue comes after the issues it      *)
(* depends on.                                                              *)
C17_ChainOrderAmended ==
    (issues = ChainABC /\ pc # "none") => stats.TopologicalOrder = <<"C", "B", "A">>

C17_Witness ==
    /\ issues = ChainABC
    /\ pc = "start"
    /\ stats.TopologicalOrder = <<"C", "B", "A">>

----------------------------------------------------------------------------
(* Critical-path scores.                                                   *)

\* the issues that have a blocking dependency on the id v
Dependents(v) == {u \in DOMAIN issues : DependsOn(u, v)}

\* 1 plus the largest published score among the dependents of v
ExpectedScore(v) ==
    Rat(1 + (IF Dependents(v) = {} THEN 0
             ELSE Max({CriticalPathScore[issues[u].ID].n : u \in Dependents(v)})), 1)

(* C19: with critical path enabled, on an acyclic blocking graph the        *)
(* published score of every issue v is 1 plus the maximum score among the   *)
(* issues that have a blocking dependency on v, and 1 when no issue depends *)
(* on v (so a chain of n issues scores 1, 2, ..., n from the issue nothing  *)
(* depends on to the issue without dependencies); on a cyclic graph the     *)
(* critical-path map is empty.                                              *)
C19_CriticalPathScores ==
    (IsPhase2Ready /\ stats.Config.ComputeCriticalPath) =>
        IF BlockingCycle
        THEN CriticalPathScore = EmptyMap
        ELSE /\ DOMAIN CriticalPathScore = IssueIDs(issues)
             /\ \A v \in IssueIDs(issues) : CriticalPathScore[v] = ExpectedScore(v)

\* a chain of three issues: the scores are 1, 2 and 3, with 3 at the issue
\* that has no dependencies
C19_Witness ==
    /\ IsPhase2Ready
    /\ stats.Config.ComputeCriticalPath
    /\ Len(issues) = 3
    /\ \E p \in Orderings(DOMAIN issues) :
          /\ ExpectedEdges = {<<p[1], issues[p[2]].ID>>, <<p[2], issues[p[3]].ID>>}
          /\ issues[p[3]].Dependencies = <<>>
          /\ \A k \in 1..3 : CriticalPathScore[issues[p[k]].ID] = Rat(k, 1)

----------------------------------------------------------------------------
(* Self-dependencies.                                                      *)

\* some issue has a blocking dependency on its own id
SelfDependency == \E i \in DOMAIN issues : DependsOn(i, issues[i].ID)

(* C20: an issue that has a blocking dependency on its own id is accepted   *)
(* by NewAnalyzer without error or panic (and then counts as one edge       *)
(* u -> u, empties TopologicalOrder and yields a cycle of length 1).        *)
(* NewAnalyzer does not return on such an input: SetEdge panics on an edge  *)
(* whose two ends are equal, so no analyzer and no handle exist.            *)
C20_SelfDependencyAccepted == SelfDependency => ~a.panicked

----------------------------------------------------------------------------
(* Nil entries in a dependency list.  The first issue carries a list of at *)
(* most NilMaxDeps entries, each nil or a dependency; the other issues     *)
(* have no dependencies.                                                   *)

NilMaxIssues == 2
NilMaxDeps == 2

DepPool(n) ==
    {NilDep, Dep(UnknownID, DepBlocks)}
        \cup {Dep(IdPool[t], ty) : t \in 2..n, ty \in {DepBlocks, "", DepRelated}}

DepLists(n) == UNION {[1..k -> DepPool(n)] : k \in 0..NilMaxDeps}

NilIssues(n, st, deps) ==
    [i \in 1..n |-> Issue(IdPool[i], st[i], IF i = 1 THEN deps ELSE <<>>)]

NilInit ==
    \E n \in 1..NilMaxIssues : \E st \in [1..n -> {StatusOpen, StatusClosed}] :
        \E deps \in DepLists(n) : StartWith({NilIssues(n, st, deps)})

\* the loop of GetBlockers and GetOpenBlockers reads dep.Type of every entry
HasNil(issue) == \E j \in DOMAIN issue.Dependencies : issue.Dependencies[j] = NilDep

RECURSIVE TargetsOf(_, _, _)
TargetsOf(an, deps, open) ==
    IF deps = <<>> THEN <<>>
    ELSE LET dep == Head(deps)
             kept == /\ isBlockingDep(dep.Type)
                     /\ dep.DependsOnID \in DOMAIN an.issueMap
                     /\ (open => an.issueMap[dep.DependsOnID].Status # StatusClosed)
         IN (IF kept THEN <<dep.DependsOnID>> ELSE <<>>) \o TargetsOf(an, Tail(deps), open)

\* GetBlockers: the targets of the blocking dependencies on known issues
GetBlockers(an, issueID) ==
    IF issueID \notin DOMAIN an.issueMap THEN <<>>
    ELSE TargetsOf(an, an.issueMap[issueID].Dependencies, FALSE)

\* GetOpenBlockers: those of them that are not closed
GetOpenBlockers(an, issueID) ==
    IF issueID \notin DOMAIN an.issueMap THEN <<>>
    ELSE TargetsOf(an, an.issueMap[issueID].Dependencies, TRUE)

GetBlockersCall ==
    /\ ~a.panicked
    /\ ret = NoRet
    /\ \E issueID \in IssueIDs(issues) \cup {UnknownID} :
          ret' = IF issueID \in DOMAIN a.issueMap /\ HasNil(a.issueMap[issueID])
                 THEN Panic("GetBlockers")
                 ELSE [op |-> "GetBlockers", val |-> <<issueID, GetBlockers(a, issueID)>>]
    /\ UNCHANGED <<issues, a, stats, mu, heap, pc, local, sub, chans, rpc, waited, snaps, cache, now, log, other, ws, fb>>

GetOpenBlockersCall ==
    /\ ~a.panicked
    /\ ret = NoRet
    /\ \E issueID \in IssueIDs(issues) \cup {UnknownID} :
          ret' = IF issueID \in DOMAIN a.issueMap /\ HasNil(a.issueMap[issueID])
                 THEN Panic("GetOpenBlockers")
                 ELSE [op |-> "GetOpenBlockers", val |-> <<issueID, GetOpenBlockers(a, issueID)>>]
    /\ UNCHANGED <<issues, a, stats, mu, heap, pc, local, sub, chans, rpc, waited, snaps, cache, now, log, other, ws, fb>>

NilNext ==
    \/ GetActionableIssuesCall
    \/ GetBlockersCall
    \/ GetOpenBlockersCall

NilSpec == NilInit /\ [][NilNext]_vars

(* C21: for every issue set, also one whose dependency lists hold a nil     *)
(* entry, NewAnalyzer, GetActionableIssues, GetBlockers and GetOpenBlockers *)
(* complete without a panic.  The three queries read dep.Type of the nil    *)
(* entry, so they do not.                                                   *)
C21_NilEntriesIgnored == ~a.panicked /\ ret.op # "panic"

\* the targets GetBlockers has to list for a known id, in the order of the
\* dependency list: those of the blocking dependencies on issues of the set
\* (open: only on issues that are not closed)
ExpectedTargets(issueID, open) ==
    LET deps == a.issueMap[issueID].Dependencies
        idx == {k \in DOMAIN deps :
                   /\ deps[k] # NilDep
                   /\ deps[k].Type \in {DepBlocks, ""}
                   /\ \E t \in DOMAIN issues :
                         /\ issues[t].ID = deps[k].DependsOnID
                         /\ open => issues[t].Status # StatusClosed}
    IN [j \in 1..Cardinality(idx) |-> deps[SetToSortedSeq(idx)[j]].DependsOnID]

(* C31: for every id of the set GetBlockers lists exactly the targets of   *)
(* the issue's blocking dependencies that are in the set, GetOpenBlockers  *)
(* those of them that are not closed, and GetActionableIssues returns an   *)
(* issue iff it is not closed and has no open blocker; for an unknown id   *)
(* both lists are empty.  None of the three calls panics.                  *)
C31_BlockersExact ==
    /\ ret.op # "panic"
    /\ ret.op = "GetBlockers" =>
          ret.val[2] = IF ret.val[1] \in IssueIDs(issues)
                       THEN ExpectedTargets(ret.val[1], FALSE) ELSE <<>>
    /\ ret.op = "GetOpenBlockers" =>
          ret.val[2] = IF ret.val[1] \in IssueIDs(issues)
                       THEN ExpectedTargets(ret.val[1], TRUE) ELSE <<>>
    /\ ret.op = "GetActionableIssues" =>
          {ret.val[k].ID : k \in DOMAIN ret.val} = {id \in IssueIDs(issues) :
                            /\ a.issueMap[id].Status # StatusClosed
                            /\ ExpectedTargets(id, TRUE) = <<>>}

----------------------------------------------------------------------------
(* Statuses and structure.  The issue lists are every graph shape of up to *)
(* StatMaxIssues issues and the cycle A -> B -> C -> A, each with every    *)
(* choice of closed issues; the analysis runs with cycle detection only.   *)

StatMaxIssues == 2

\* the issues at the places cl are closed, the others open
WithClosed(iss, cl) ==
    [i \in DOMAIN iss |->
        [iss[i] EXCEPT !.Status = IF i \in cl THEN StatusClosed ELSE StatusOpen]]

AllOpen(iss) == WithClosed(iss, {})

CycleABC ==
    <<Issue("A", StatusOpen, <<Dep("B", DepBlocks)>>),
      Issue("B", StatusOpen, <<Dep("C", DepBlocks)>>),
      Issue("C", StatusOpen, <<Dep("A", DepBlocks)>>)>>

CyclesOnly == AnalysisConfig(FALSE, FALSE, FALSE, FALSE, FALSE, TRUE, "", 0, 0)

StatInit ==
    \/ \E n \in 1..StatMaxIssues : \E E \in {F \in SUBSET DepPairs(n) : Canonical(n, F)} :
          \E cl \in SUBSET (1..n) : StartWith({WithClosed(MakeIssues(n, E), cl)})
    \/ \E cl \in SUBSET (1..3) : StartWith({WithClosed(CycleABC, cl)})

StatNext ==
    \/ AnalyzeAsyncWithConfig(CyclesOnly)
    \/ CycCoordinator
    \/ CyclesWorker
    \/ GetActionableIssuesCall

StatSpec == StatInit /\ [][StatNext]_vars

\* the ids of the issues returned by the last call
ReturnedIDs == [k \in DOMAIN ret.val |-> ret.val[k].ID]

\* the analyzer of the same list with every issue open
OpenAnalyzer == NewAnalyzer(AllOpen(issues))

----------------------------------------------------------------------------
(* Two runs of the analysis on one analyzer under one configuration.       *)

PageRankOnly == AnalysisConfig(TRUE, FALSE, FALSE, FALSE, FALSE, FALSE, "", 0, 0)

\* what a caller reads from a handle after WaitForPhase2
Results == <<Phase1Fields, Phase2Contents>>

\* the second call of AnalyzeAsyncWithConfig, made with the configuration of
\* the first once WaitForPhase2 has returned on the first handle; the results
\* of the first handle are kept in ret.  The new handle has its own mutex,
\* channels and workers.
AnalyzeAgain ==
    /\ pc = "done"
    /\ ret = NoRet
    /\ SomeWaited
    /\ \A r \in Readers : rpc[r] = "idle"
    /\ ret' = [op |-> "first", val |-> Results]
    /\ heap' = heap \o SixEmptyMaps
    /\ \E sorted \in SortOrEmpty(a) :
          stats' = computePhase1(NewStats(a, local.config, Len(heap)), a, sorted)
    /\ pc' = "start"
    /\ mu' = Unlocked
    /\ sub' = NoSub
    /\ chans' = NoChans
    /\ waited' = [r \in Readers |-> FALSE]
    /\ local' = [ZeroLocal EXCEPT !.config = local.config]
    /\ UNCHANGED <<issues, a, rpc, snaps, cache, now, log, other, ws, fb>>

TwiceInit == LiveInit

TwiceNext ==
    \/ AnalyzeAsyncWithConfig(PageRankOnly)
    \/ AnalyzeAgain
    \/ P2Start
    \/ PageRankStart \/ PageRankRecv \/ PageRankTimeout \/ PageRankWorker
    \/ BetweennessStart \/ EigenvectorStep \/ HITSStart \/ CriticalPath \/ CyclesStart
    \/ LockRequest \/ LockAcquire \/ Assign \/ Unlock \/ CloseDone
    \/ \E r \in Readers : WaitForPhase2Call(r) \/ WaitForPhase2Return(r)

TwiceSpec == TwiceInit /\ [][TwiceNext]_vars

(* C23: two runs of the analysis on the same issue sequence under the same *)
(* configuration yield, after WaitForPhase2 on both handles, the same       *)
(* phase-1 fields and the same phase-2 results.  The order topo.Sort gives  *)
(* to unrelated issues and the expiry of a deadline differ between runs.    *)
C23_Deterministic ==
    (ret.op = "first" /\ stats.phase2Done = "closed" /\ SomeWaited) => Results = ret.val

----------------------------------------------------------------------------
(* Sub-workers after their deadline.  No consumer takes a step: the handle *)
(* has been dropped.  Each sub-worker goroutine is scheduled and its       *)
(* computation on a finite graph ends; the coordinator may stop anywhere.  *)

WorkerConfigs ==
    {c \in Configs :
        /\ Cardinality(DeadlineGuarded(c)) = 1
        /\ ~c.ComputeEigenvector /\ ~c.ComputeCriticalPath
        /\ c.BetweennessMode \in {"", BetweennessExact}}

WorkerNext ==
    \/ \E config \in WorkerConfigs : AnalyzeAsyncWithConfig(config)
    \/ Coordinator
    \/ SubWorkers

WorkerSpec ==
    /\ LiveInit
    /\ [][WorkerNext]_vars
    /\ WF_vars(PageRankWorker)
    /\ WF_vars(BetweennessWorker)
    /\ WF_vars(HITSWorker)
    /\ WF_vars(CyclesWorker)

\* the worker w runs while the coordinator has left the select that waited for it
Abandoned(w, select) == sub[w] = "running" /\ pc \in AfterPC(select)

(* C24: every sub-worker started by phase 2 (PageRank, betweenness, HITS,   *)
(* cycle enumeration) that is still running when its deadline has expired   *)
(* and the coordinator has stopped waiting for it eventually terminates,    *)
(* with no consumer left: its send on the buffered channel does not block.  *)
C24_WorkersTerminate ==
    /\ Abandoned("pr", "pagerank_select") ~> (sub.pr = "done")
    /\ Abandoned("bw", "betweenness_select") ~> (sub.bw = "done")
    /\ Abandoned("hits", "hits_select") ~> (sub.hits = "done")
    /\ Abandoned("cycles", "cycles_select") ~> (sub.cycles = "done")

\* the enumeration ended after the coordinator had published the timeout
\* sentinel and finished; its result stays in the channel buffer
C24_Witness ==
    /\ pc = "done"
    /\ sub.cycles = "done"
    /\ chans.cyclesDone # <<>>
    /\ Cycles = <<CycleDetectionTimeout>>

----------------------------------------------------------------------------
(* ComputeDataHash: the digest of each issue over its fields (dependencies *)
(* as sorted (depends_on_id, kind) pairs), the digests sorted, and the     *)
(* hash of their concatenation; "empty" for no issues.  A digest is kept   *)
(* as the sequence of the codes of the fields it is taken over, and the    *)
(* final hash as the sequence it is taken over.                            *)

CodeOf(x, pool) == CHOOSE k \in DOMAIN pool : pool[k] = x

IdCodes == IdPool \o <<UnknownID>>

DepCode(dep) == CodeOf(dep.DependsOnID, IdCodes) * (Len(DepTypes) + 1) + CodeOf(dep.Type, DepTypes)

IssueDigest(issue) ==
    <<CodeOf(issue.ID, IdCodes), CodeOf(issue.Status, Statuses)>>
        \o SetToSortedSeq({DepCode(issue.Dependencies[j]) : j \in DOMAIN issue.Dependencies})

\* s comes before t in the order of the digests (as strings)
RECURSIVE DigestBefore(_, _)
DigestBefore(s, t) ==
    IF s = <<>> THEN TRUE
    ELSE IF t = <<>> THEN FALSE
    ELSE IF Head(s) # Head(t) THEN Head(s) < Head(t)
    ELSE DigestBefore(Tail(s), Tail(t))

RECURSIVE InsertDigest(_, _)
InsertDigest(d, sorted) ==
    IF sorted = <<>> THEN <<d>>
    ELSE IF DigestBefore(d, Head(sorted)) THEN <<d>> \o sorted
    ELSE <<Head(sorted)>> \o InsertDigest(d, Tail(sorted))

SortDigests_Keep(ds) == ds

\* sort.Strings on the per-issue digests
RECURSIVE SortDigests(_)
SortDigests(ds) ==
    IF ds = <<>> THEN <<>> ELSE InsertDigest(Head(ds), SortDigests(Tail(ds)))

ComputeDataHash(iss) ==
    IF Len(iss) = 0 THEN "empty"
    ELSE [sha256 |-> SortDigests([i \in DOMAIN iss |-> IssueDigest(iss[i])])]

Permuted(iss, p) == [i \in DOMAIN iss |-> iss[p[i]]]

\* ComputeDataHash called on a reordering of the issue list
ComputeDataHashCall ==
    /\ ret = NoRet
    /\ \E p \in Orderings(DOMAIN issues) :
          ret' = [op |-> "ComputeDataHash", val |-> <<p, ComputeDataHash(Permuted(issues, p))>>]
    /\ UNCHANGED <<issues, a, stats, mu, heap, pc, local, sub, chans, rpc, waited, snaps, cache, now, log, other, ws, fb>>

HashInit == RichInit({1, 3})

HashNext == ComputeDataHashCall

HashSpec == HashInit /\ [][HashNext]_vars

(* C25: ComputeDataHash is invariant under every permutation of the issue  *)
(* sequence: the hash of every reordering equals the hash of the list.     *)
C25_HashOrderIndependent ==
    ret.op = "ComputeDataHash" => ret.val[2] = ComputeDataHash(issues)

\* two issues that differ in content, hashed in the opposite order
C25_Witness ==
    /\ ret.op = "ComputeDataHash"
    /\ Len(issues) = 2
    /\ ret.val[1] = <<2, 1>>
    /\ issues[1].Dependencies # issues[2].Dependencies
    /\ ret.val[2] = ComputeDataHash(issues)

-----------------------------------------------------------------------------
(* The Cache: a single slot keyed by the data hash of the issues, with a   *)
(* TTL.  Get returns the stored handle and true on a hit, the nil handle   *)
(* and false otherwise; Set stores a handle under the hash of the issues   *)
(* at the current time; Invalidate empties the slot.  A CachedAnalyzer     *)
(* consults the cache in AnalyzeAsync and, on a miss, runs the analysis    *)
(* and stores the new handle before it returns.  Stats handles are         *)
(* numbered in the order of their creation.                                *)

CacheMaxOps == 2

CacheMaxTime == 3

IssueA == Issue("A", StatusOpen, <<>>)

IssueB == Issue("B", StatusOpen, <<Dep("A", DepBlocks)>>)

\* the issue lists given to the cache: two contents, one of them in two orders
CacheLists == {<<IssueA>>, <<IssueA, IssueB>>, <<IssueB, IssueA>>}

CacheGet_NoTTL(c, l, t) ==
    IF c.stats # 0 /\ c.dataHash = ComputeDataHash(l)
    THEN <<c.stats, TRUE>> ELSE <<0, FALSE>>

\* Cache.Get(issues) at time t
CacheGet(c, l, t) ==
    IF c.stats # 0 /\ c.dataHash = ComputeDataHash(l) /\ t - c.computedAt < c.ttl
    THEN <<c.stats, TRUE>> ELSE <<0, FALSE>>

\* Cache.Set(issues, stats) at time t
CacheSet(c, l, h, t) ==
    [c EXCEPT !.stats = h, !.dataHash = ComputeDataHash(l), !.computedAt = t]

\* Cache.Invalidate()
CacheInvalidate(c) == [c EXCEPT !.stats = 0, !.dataHash = NoHash]

LogSet(l, h, t) == [op |-> "Set", hash |-> ComputeDataHash(l), handle |-> h, at |-> t]

LogInvalidate(t) == [op |-> "Invalidate", hash |-> NoHash, handle |-> 0, at |-> t]

\* the handles created so far, and the one the next analysis creates
Handles == {log[k].handle : k \in DOMAIN log}

NewHandle == Max(Handles \cup {0}) + 1

CacheGetCall ==
    /\ \E l \in CacheLists :
          ret' = [op |-> "Get", val |-> <<l>> \o CacheGet(cache, l, now)]
    /\ UNCHANGED <<issues, a, stats, mu, heap, pc, local, sub, chans, rpc, waited, snaps,
                   cache, now, log, other, ws, fb>>

CacheSetCall ==
    /\ Len(log) < CacheMaxOps
    /\ \E l \in CacheLists : \E h \in 1..NewHandle :
          /\ cache' = CacheSet(cache, l, h, now)
          /\ log' = Append(log, LogSet(l, h, now))
    /\ ret' = NoRet
    /\ UNCHANGED <<issues, a, stats, mu, heap, pc, local, sub, chans, rpc, waited, snaps, now, other, ws, fb>>

CacheInvalidateCall ==
    /\ Len(log) < CacheMaxOps
    /\ cache' = CacheInvalidate(cache)
    /\ log' = Append(log, LogInvalidate(now))
    /\ ret' = NoRet
    /\ UNCHANGED <<issues, a, stats, mu, heap, pc, local, sub, chans, rpc, waited, snaps, now, other, ws, fb>>

\* time passes
Tick ==
    /\ now < CacheMaxTime
    /\ now' = now + 1
    /\ UNCHANGED <<issues, a, stats, mu, heap, pc, local, sub, chans, rpc, waited, snaps, ret,
                   cache, log, other, ws, fb>>

CachedAnalyzeAsync_NoStore(c, l, t, fresh) ==
    IF CacheGet(c, l, t)[2]
    THEN [stats |-> CacheGet(c, l, t)[1], cacheHit |-> TRUE, cache |-> c]
    ELSE [stats |-> fresh, cacheHit |-> FALSE, cache |-> c]

\* CachedAnalyzer.AnalyzeAsync over the issues l: the handle it returns, its
\* cacheHit flag, and the cache it leaves
CachedAnalyzeAsync(c, l, t, fresh) ==
    IF CacheGet(c, l, t)[2]
    THEN [stats |-> CacheGet(c, l, t)[1], cacheHit |-> TRUE, cache |-> c]
    ELSE [stats |-> fresh, cacheHit |-> FALSE, cache |-> CacheSet(c, l, fresh, t)]

\* NewCachedAnalyzer(issues, cache) followed by AnalyzeAsync and WasCacheHit
CachedAnalyzeAsyncCall ==
    \E l \in CacheLists :
        LET r == CachedAnalyzeAsync(cache, l, now, NewHandle) IN
        /\ r.cacheHit \/ Len(log) < CacheMaxOps
        /\ issues' = l
        /\ a' = NewAnalyzer(l)
        /\ cache' = r.cache
        /\ log' = IF r.cache # cache THEN Append(log, LogSet(l, r.stats, now)) ELSE log
        /\ ret' = [op |-> "AnalyzeAsync", val |-> <<l, r.stats, r.cacheHit, cache.stats>>]
        /\ UNCHANGED <<stats, mu, heap, pc, local, sub, chans, rpc, waited, snaps, now, other, ws, fb>>

CacheInit == StartWith({<<>>})

CacheNext ==
    \/ CacheGetCall
    \/ CacheSetCall
    \/ CacheInvalidateCall
    \/ Tick
    \/ CachedAnalyzeAsyncCall

CacheSpec == CacheInit /\ [][CacheNext]_vars

\* the last Set or Invalidate made on the cache
LastOp == log[Len(log)]

\* by the history: the most recent call was a Set (no Invalidate since) for
\* the data hash of l, less than the TTL ago
StoredFor(l) ==
    /\ Len(log) > 0
    /\ LastOp.op = "Set"
    /\ LastOp.hash = ComputeDataHash(l)
    /\ now - LastOp.at < CacheTTL

(* C26: after any sequence of Set, Get, Invalidate and elapsed time, Get   *)
(* reports a hit iff the slot holds an entry that the most recent Set      *)
(* since the last Invalidate stored, for the data hash of the issues,      *)
(* less than the TTL ago; otherwise it returns the nil handle and false.   *)
C26_GetHitIff ==
    [][(ret'.op = "Get" /\ ret' # ret) =>
          LET l == ret'.val[1]
              h == ret'.val[2]
              ok == ret'.val[3]
          IN /\ ok <=> (cache.stats # 0 /\ StoredFor(l))
             /\ ~ok => h = 0]_vars

\* a hit on the entry of the second Set, after time has passed
C26_Witness ==
    /\ ret.op = "Get"
    /\ ret.val[3]
    /\ Len(log) = 2
    /\ log[1].hash # log[2].hash
    /\ now > LastOp.at

\* a miss on an entry of the same data hash whose TTL has elapsed
C26_WitnessExpired ==
    /\ ret.op = "Get"
    /\ ~ret.val[3]
    /\ Len(log) > 0
    /\ LastOp.op = "Set"
    /\ LastOp.hash = ComputeDataHash(ret.val[1])
    /\ now - LastOp.at >= CacheTTL

(* C27: a hit returns the very handle that was stored; AnalyzeAsync of a   *)
(* CachedAnalyzer hits iff the cache holds a live entry for the data hash  *)
(* of its issues and then returns that handle, and on a miss it returns a  *)
(* handle that did not exist before and leaves it stored in the cache      *)
(* under the data hash of its issues.                                      *)
C27_SameHandle ==
    [][/\ (ret'.op = "Get" /\ ret' # ret /\ ret'.val[3]) => ret'.val[2] = LastOp.handle
       /\ (ret'.op = "AnalyzeAsync" /\ ret' # ret) =>
             LET l == ret'.val[1]
                 h == ret'.val[2]
                 hit == ret'.val[3]
             IN /\ hit <=> StoredFor(l)
                /\ hit => h = LastOp.handle /\ cache' = cache
                /\ ~hit => /\ h \notin Handles \cup {0}
                           /\ cache'.stats = h
                           /\ cache'.dataHash = ComputeDataHash(l)
                           /\ CacheGet(cache', l, now') = <<h, TRUE>>]_vars

\* a second CachedAnalyzer over the same issues in another order, later but
\* within the TTL, hits and returns the handle the first one created
C27_Witness ==
    /\ ret.op = "AnalyzeAsync"
    /\ ret.val[3]
    /\ Len(log) = 1
    /\ ret.val[2] = log[1].handle
    /\ Len(ret.val[1]) = 2
    /\ now > log[1].at

\* a second CachedAnalyzer over other issues misses and returns another handle
C27_WitnessMiss ==
    /\ ret.op = "AnalyzeAsync"
    /\ ~ret.val[3]
    /\ Len(log) = 2
    /\ log[1].op = "Set"
    /\ log[1].hash # log[2].hash
    /\ ret.val[2] # log[1].handle
    /\ ret.val[4] = log[1].handle

-----------------------------------------------------------------------------
(* Risk signals.  ComputeAllRiskSignals builds the dependents index and    *)
(* computes the signals of every issue that is not closed.  Of the signals *)
(* kept here are the parts that depend on which dependencies count as      *)
(* blocking: the ids whose degrees computeFanVariance collects, and the    *)
(* two counts whose quotient computeCrossRepoRisk returns.  A list that    *)
(* is appended to while ranging over a map is kept as the number of times  *)
(* each element was appended.                                              *)

\* the test the risk signals apply to a dependency
DepTypeIsBlocks(dep) == dep # NilDep /\ dep.Type = DepBlocks

\* how many dependencies of the issue satisfy the test and have target t
CountOn(issue, t, legacy) ==
    Cardinality({k \in DOMAIN issue.Dependencies :
                    /\ IF legacy THEN issue.Dependencies[k] # NilDep
                                      /\ isBlockingDep(issue.Dependencies[k].Type)
                       ELSE DepTypeIsBlocks(issue.Dependencies[k])
                    /\ issue.Dependencies[k].DependsOnID = t})

\* dependents[t]: the index i of an issue is appended once for each of its
\* dependencies on t that passes the test
DependentsIndex(iss) ==
    [t \in AllIDs |-> [i \in DOMAIN iss |-> CountOn(iss[i], t, FALSE)]]

RECURSIVE FanNeighbors(_)
FanNeighbors(deps) ==
    IF deps = <<>> THEN <<>>
    ELSE (IF DepTypeIsBlocks(Head(deps)) /\ Head(deps).DependsOnID # ""
          THEN <<Head(deps).DependsOnID>> ELSE <<>>) \o FanNeighbors(Tail(deps))

\* computeFanVariance with a precomputed dependents index: whether it takes
\* the fast path, and otherwise the ids whose degrees it collects after the
\* issue's own
computeFanVariance(iss, i, dependents) ==
    IF Len(iss[i].Dependencies) = 0 /\ \A u \in DOMAIN iss : dependents[iss[i].ID][u] = 0
    THEN [fast |-> TRUE, neighbors |-> <<>>, dependents |-> [u \in DOMAIN iss |-> 0]]
    ELSE [fast |-> FALSE,
          neighbors |-> FanNeighbors(iss[i].Dependencies),
          dependents |-> dependents[iss[i].ID]]

\* computeCrossRepoRisk: crossRepoCount and totalBlockingDeps; the result is
\* their quotient, or 0 on the early returns
computeCrossRepoRisk(iss, i) ==
    IF iss[i].SourceRepo = "" \/ Len(iss[i].Dependencies) = 0
    THEN [early |-> TRUE, crossRepoCount |-> 0, totalBlockingDeps |-> 0]
    ELSE LET counted == {k \in DOMAIN iss[i].Dependencies :
                            DepTypeIsBlocks(iss[i].Dependencies[k])}
             cross == {k \in counted :
                          \E t \in DOMAIN iss :
                              /\ iss[t].ID = iss[i].Dependencies[k].DependsOnID
                              /\ iss[t].SourceRepo # ""
                              /\ iss[t].SourceRepo # iss[i].SourceRepo}
         IN [early |-> FALSE,
             crossRepoCount |-> Cardinality(cross),
             totalBlockingDeps |-> Cardinality(counted)]

ComputeAllRiskSignals(iss) ==
    [dependents |-> DependentsIndex(iss),
     result |-> [i \in {u \in DOMAIN iss : iss[u].Status # StatusClosed} |->
                    [FanVariance |-> computeFanVariance(iss, i, DependentsIndex(iss)),
                     CrossRepoRisk |-> computeCrossRepoRisk(iss, i)]]]

ComputeAllRiskSignalsCall ==
    /\ ret = NoRet
    /\ ~a.panicked
    /\ ret' = [op |-> "ComputeAllRiskSignals", val |-> <<ComputeAllRiskSignals(issues)>>]
    /\ UNCHANGED <<issues, a, stats, mu, heap, pc, local, sub, chans, rpc, waited, snaps,
                   cache, now, log, other, ws, fb>>

\* the issues of a workspace: none has a source repository, or they alternate
\* between two
RepoAssignments(n) ==
    {[i \in 1..n |-> ""], [i \in 1..n |-> IF i % 2 = 1 THEN "api" ELSE "web"]}

WithRepos(iss, rp) == [i \in DOMAIN iss |-> [iss[i] EXCEPT !.SourceRepo = rp[i]]]

RiskInit ==
    \E n \in 0..RichMaxIssues : \E st \in {f \in [1..n -> {1, 3}] : Sorted(f)} :
        \E D \in SubsetsUpTo(n, RichMaxDeps) : \E rp \in RepoAssignments(n) :
            StartWith({WithRepos(MakeRichIssues(n, st, D), rp)})

RiskNext == ComputeAllRiskSignalsCall

RiskSpec == RiskInit /\ [][RiskNext]_vars

\* the blocking dependencies of issue i, by the rule of isBlockingDep
BlockingDeps(i) ==
    {k \in DOMAIN issues[i].Dependencies :
        issues[i].Dependencies[k] # NilDep /\ isBlockingDep(issues[i].Dependencies[k].Type)}

(* C28: the risk signals count the same dependencies as blocking as graph  *)
(* construction and the blocker queries do: an issue is in the dependents  *)
(* index of a known issue exactly when the graph has the edge, each index  *)
(* entry and each fan-variance neighbour list counts every dependency of   *)
(* kind blocks or empty, and totalBlockingDeps is their number.            *)
C28_EmptyKindIsBlocking ==
    ret.op = "ComputeAllRiskSignals" =>
        LET r == ret.val[1] IN
        /\ \A i \in DOMAIN issues : \A t \in AllIDs :
              /\ r.dependents[t][i] = CountOn(issues[i], t, TRUE)
              /\ t \in DOMAIN a.idToNode =>
                    (r.dependents[t][i] > 0 <=>
                        <<a.idToNode[issues[i].ID], a.idToNode[t]>> \in a.edges)
        /\ \A i \in DOMAIN r.result :
              /\ ~r.result[i].FanVariance.fast =>
                    Len(r.result[i].FanVariance.neighbors) = Cardinality(BlockingDeps(i))
              /\ ~r.result[i].CrossRepoRisk.early =>
                    r.result[i].CrossRepoRisk.totalBlockingDeps = Cardinality(BlockingDeps(i))

-----------------------------------------------------------------------------
(* Impact scores and priority recommendations.  The normalised metrics of  *)
(* an issue (PageRankNorm, BetweennessNorm, BlockerRatioNorm and           *)
(* StalenessNorm, which ComputeImpactScoresAt derives from the stats and   *)
(* the clock), its priority and the number of issues it unblocks are       *)
(* inputs.  Normalised metrics are in thousandths; scores, confidences,    *)
(* MinConfidence and SignificantDelta are in ten-thousandths, so that the  *)
(* weights 0.30, 0.30, 0.20, 0.10, 0.10 are the integers 3, 3, 2, 1, 1.    *)

computePriorityBoost(priority) ==
    CASE priority = 0 -> 1000
      [] priority = 1 -> 750
      [] priority = 2 -> 500
      [] priority = 3 -> 250
      [] OTHER -> 0

\* the ImpactScore that ComputeImpactScoresAt appends for an issue
ImpactScore(id, in) ==
    [IssueID |-> id,
     Score |-> 3 * in.PageRankNorm + 3 * in.BetweennessNorm + 2 * in.BlockerRatioNorm
                 + in.StalenessNorm + computePriorityBoost(in.Priority),
     Breakdown |-> [PageRankNorm |-> in.PageRankNorm,
                    BetweennessNorm |-> in.BetweennessNorm,
                    BlockerRatioNorm |-> in.BlockerRatioNorm,
                    StalenessNorm |-> in.StalenessNorm,
                    PriorityBoostNorm |-> computePriorityBoost(in.Priority)],
     Priority |-> in.Priority]

\* the order of the sort in ComputeImpactScoresAt: score descending, then
\* IssueID ascending
ScoreBefore(s, t) ==
    IF s.Score # t.Score THEN s.Score > t.Score
    ELSE CodeOf(s.IssueID, IdCodes) < CodeOf(t.IssueID, IdCodes)

\* ComputeImpactScores: one score for every issue that is not closed, sorted
ComputeImpactScores(iss, in) ==
    LET kept == {i \in DOMAIN iss : iss[i].Status # StatusClosed}
        p == CHOOSE q \in Orderings(kept) :
                \A j, k \in DOMAIN q :
                    j < k => ScoreBefore(ImpactScore(iss[q[j]].ID, in[q[j]]),
                                         ImpactScore(iss[q[k]].ID, in[q[k]]))
    IN [j \in DOMAIN p |-> ImpactScore(iss[p[j]].ID, in[p[j]])]

DefaultThresholds ==
    [HighPageRank |-> 300, HighBetweenness |-> 500, StalenessDays |-> 14,
     MinConfidence |-> 3000, SignificantDelta |-> 1500]

scoreToPriority_Strict(score) ==
    IF score > 7000 THEN 0
    ELSE IF score > 5000 THEN 1
    ELSE IF score > 3000 THEN 2
    ELSE IF score > 1500 THEN 3
    ELSE 4

scoreToPriority(score) ==
    IF score >= 7000 THEN 0
    ELSE IF score >= 5000 THEN 1
    ELSE IF score >= 3000 THEN 2
    ELSE IF score >= 1500 THEN 3
    ELSE 4

priorityToScore(priority) ==
    CASE priority = 0 -> 8000
      [] priority = 1 -> 6000
      [] priority = 2 -> 4000
      [] priority = 3 -> 2000
      [] OTHER -> 1000

abs(x) == IF x < 0 THEN 0 - x ELSE x

calculateConfidence(signals, strength, scoreDelta, thresholds) ==
    LET signalConfidence == Min({signals * 2500, 10000})
        strengthBoost == Min({strength \div 2, 3000})
        deltaBoost == IF scoreDelta >= thresholds.SignificantDelta THEN 2000 ELSE 0
    IN Min({signalConfidence + strengthBoost + deltaBoost, 10000})

\* the reasoning lines of generateRecommendation, one for each signal that
\* fires, with the strength the signal adds
FiredSignals(score, unblocksCount, thresholds) ==
    (IF score.Breakdown.PageRankNorm > thresholds.HighPageRank
     THEN <<[reason |-> "High centrality in dependency graph",
             strength |-> 10 * score.Breakdown.PageRankNorm]>> ELSE <<>>)
    \o (IF score.Breakdown.BetweennessNorm > thresholds.HighBetweenness
        THEN <<[reason |-> "Critical path bottleneck",
                strength |-> 10 * score.Breakdown.BetweennessNorm]>> ELSE <<>>)
    \o (IF unblocksCount >= 3
        THEN <<[reason |-> "Blocks %d other items", strength |-> 5000 + 1000 * unblocksCount]>>
        ELSE IF unblocksCount = 2
        THEN <<[reason |-> "Blocks 2 other items", strength |-> 3000]>>
        ELSE IF unblocksCount = 1
        THEN <<[reason |-> "Blocks 1 other item", strength |-> 2000]>>
        ELSE <<>>)
    \o (IF 30 * score.Breakdown.StalenessNorm >= 1000 * thresholds.StalenessDays
        THEN <<[reason |-> "Stale for %d+ days", strength |-> 2000]>> ELSE <<>>)

RECURSIVE SumStrength(_)
SumStrength(fired) ==
    IF fired = <<>> THEN 0 ELSE Head(fired).strength + SumStrength(Tail(fired))

\* generateRecommendation: the empty sequence for nil, else the recommendation
generateRecommendation(score, unblocksCount, thresholds) ==
    LET fired == FiredSignals(score, unblocksCount, thresholds)
        suggestedPriority == scoreToPriority(score.Score)
    IN IF Len(fired) = 0 THEN <<>>
       ELSE IF suggestedPriority = score.Priority THEN <<>>
       ELSE <<[IssueID |-> score.IssueID,
               CurrentPriority |-> score.Priority,
               SuggestedPriority |-> suggestedPriority,
               ImpactScore |-> score.Score,
               Confidence |-> calculateConfidence(Len(fired), SumStrength(fired),
                                  abs(score.Score - priorityToScore(score.Priority)),
                                  thresholds),
               Reasoning |-> [k \in DOMAIN fired |-> fired[k].reason],
               Direction |-> IF suggestedPriority > score.Priority
                             THEN "decrease" ELSE "increase"]>>

\* the recommendations appended in the order of the scores, before the sort
RECURSIVE Appended(_, _, _)
Appended(scores, unblocksMap, thresholds) ==
    IF scores = <<>> THEN <<>>
    ELSE LET rec == generateRecommendation(Head(scores), unblocksMap[Head(scores).IssueID],
                                           thresholds)
         IN (IF rec # <<>> /\ rec[1].Confidence >= thresholds.MinConfidence
             THEN rec ELSE <<>>) \o Appended(Tail(scores), unblocksMap, thresholds)

\* sort.Slice with less(i, j) = Confidence[i] > Confidence[j]: sort.Slice is
\* not stable, the result is any order of the list that less allows
SortedByConfidence(recs) ==
    {[j \in DOMAIN q |-> recs[q[j]]] : q \in
        {q \in Orderings(DOMAIN recs) :
            \A j, k \in DOMAIN q : j < k => recs[q[j]].Confidence >= recs[q[k]].Confidence}}

GenerateRecommendationsWithThresholds(iss, in, unblocksMap, thresholds) ==
    SortedByConfidence(Appended(ComputeImpactScores(iss, in), unblocksMap, thresholds))

\* the metrics and the priority an issue can have
ScoreInputs ==
    [PageRankNorm : {0, 300, 1000}, BetweennessNorm : {0, 1000}, BlockerRatioNorm : {0, 1000},
     StalenessNorm : {0, 1000}, Priority : {0, 1, 3}]

UnblocksCounts == {0, 1}

ThresholdInputs == {DefaultThresholds, [DefaultThresholds EXCEPT !.MinConfidence = 6000]}

RecLists ==
    {<<IssueA>>, <<IssueA, IssueB>>,
     <<IssueA, Issue("B", StatusClosed, <<Dep("A", DepBlocks)>>)>>}

GenerateRecommendationsCall ==
    /\ ret = NoRet
    /\ \E in \in [DOMAIN issues -> ScoreInputs] :
       \E unblocksMap \in [IssueIDs(issues) -> UnblocksCounts] :
       \E thresholds \in ThresholdInputs :
       \E recs \in GenerateRecommendationsWithThresholds(issues, in, unblocksMap, thresholds) :
          ret' = [op |-> "GenerateRecommendationsWithThresholds",
                  val |-> <<in, unblocksMap, thresholds, recs>>]
    /\ UNCHANGED <<issues, a, stats, mu, heap, pc, local, sub, chans, rpc, waited, snaps,
                   cache, now, log, other, ws, fb>>

RecInit == StartWith(RecLists)

RecNext == GenerateRecommendationsCall

RecSpec == RecInit /\ [][RecNext]_vars

\* the bucket of a score, by the table of the specification
Bucket(score) ==
    CASE score >= 7000 -> 0
      [] score < 7000 /\ score >= 5000 -> 1
      [] score < 5000 /\ score >= 3000 -> 2
      [] score < 3000 /\ score >= 1500 -> 3
      [] OTHER -> 4

\* what the claim requires of issue i for a recommendation
Recommended(i, in, unblocksMap, thresholds) ==
    LET score == ImpactScore(issues[i].ID, in[i])
        fired == FiredSignals(score, unblocksMap[issues[i].ID], thresholds)
    IN /\ issues[i].Status # StatusClosed
       /\ Bucket(score.Score) # in[i].Priority
       /\ Len(fired) >= 1
       /\ calculateConfidence(Len(fired), SumStrength(fired),
              abs(score.Score - priorityToScore(in[i].Priority)), thresholds)
            >= thresholds.MinConfidence

(* C29: GenerateRecommendationsWithThresholds returns a recommendation for *)
(* an issue iff the issue is not closed, the bucket of its impact score    *)
(* differs from its priority, at least one signal fired and the confidence *)
(* is at least MinConfidence; the suggested priority is that bucket.       *)
C29_RecommendedIff ==
    ret.op = "GenerateRecommendationsWithThresholds" =>
        LET in == ret.val[1]
            unblocksMap == ret.val[2]
            thresholds == ret.val[3]
            recs == ret.val[4]
        IN /\ \A i \in DOMAIN issues :
                 (\E k \in DOMAIN recs : recs[k].IssueID = issues[i].ID)
                    <=> Recommended(i, in, unblocksMap, thresholds)
           /\ \A k \in DOMAIN recs :
                 /\ recs[k].SuggestedPriority = Bucket(recs[k].ImpactScore)
                 /\ \A j \in DOMAIN recs : recs[j].IssueID = recs[k].IssueID => j = k

\* an issue of priority 0 whose score is exactly 0.5 is recommended for 1, and
\* an issue with a signal is left out because its confidence is too low
C29_Witness ==
    /\ ret.op = "GenerateRecommendationsWithThresholds"
    /\ Len(issues) = 2
    /\ Len(ret.val[4]) = 1
    /\ ret.val[4][1].ImpactScore = 5000
    /\ ret.val[4][1].SuggestedPriority = 1
    /\ ret.val[4][1].CurrentPriority = 0
    /\ \E i \in DOMAIN issues :
          /\ issues[i].Status # StatusClosed
          /\ issues[i].ID # ret.val[4][1].IssueID
          /\ Bucket(ImpactScore(issues[i].ID, ret.val[1][i]).Score) # ret.val[1][i].Priority
          /\ FiredSignals(ImpactScore(issues[i].ID, ret.val[1][i]),
                          ret.val[2][issues[i].ID], ret.val[3]) # <<>>

(* C30: the list GenerateRecommendations returns is sorted by confidence   *)
(* descending, and recommendations of equal confidence are in ascending    *)
(* order of issue id.                                                      *)
C30_TiesByID ==
    (ret.op = "GenerateRecommendationsWithThresholds" /\ ret.val[3] = DefaultThresholds) =>
        \A j, k \in DOMAIN ret.val[4] :
            j < k =>
                \/ ret.val[4][j].Confidence > ret.val[4][k].Confidence
                \/ /\ ret.val[4][j].Confidence = ret.val[4][k].Confidence
                   /\ CodeOf(ret.val[4][j].IssueID, IdCodes)
                        < CodeOf(ret.val[4][k].IssueID, IdCodes)

-----------------------------------------------------------------------------
(* Two calls of AnalyzeAsyncWithConfig on one Analyzer.  Each call has its *)
(* own handle, mutex, coordinator, local maps, channels and sub-workers;   *)
(* the calls share the Analyzer and the heap.  The steps above are those   *)
(* of the call in stats, mu, pc, local, sub and chans; the scheduler       *)
(* turning to the goroutines of the other call exchanges the two, so the   *)
(* steps of the two calls, and of the sub-workers a call left behind at a  *)
(* deadline, interleave in every way.                                      *)

Call == [stats |-> stats, mu |-> mu, pc |-> pc, local |-> local, sub |-> sub, chans |-> chans]

Switch ==
    /\ other' = Call
    /\ stats' = other.stats
    /\ mu' = other.mu
    /\ pc' = other.pc
    /\ local' = other.local
    /\ sub' = other.sub
    /\ chans' = other.chans
    /\ UNCHANGED <<issues, a, heap, rpc, waited, snaps, ret, cache, now, log, ws, fb>>

\* both calls are made with the same configuration, one of these
ShareConfigs == {PageRankOnly, CyclesOnly}

ShareInit == LiveInit

ShareNext ==
    \/ \E config \in ShareConfigs :
          /\ other.pc # "none" => config = other.stats.Config
          /\ AnalyzeAsyncWithConfig(config)
    \/ Switch
    \/ P2Start
    \/ PageRankStart \/ PageRankRecv \/ PageRankTimeout \/ PageRankWorker
    \/ BetweennessStart \/ EigenvectorStep \/ HITSStart \/ CriticalPath
    \/ CyclesStart \/ CyclesRecv \/ CyclesTimeout \/ CyclesWorker
    \/ LockRequest \/ LockAcquire \/ Assign \/ Unlock \/ CloseDone

ShareSpec == ShareInit /\ [][ShareNext]_vars

\* the heap objects of a call: the maps and the cycle list of its handle and
\* of its coordinator, and the rows of those lists
OwnedBy(c) ==
    LET top == ({c.stats[Phase2Fields[i]] : i \in DOMAIN Phase2Fields}
                    \cup {LocalFor(c.local, Phase2Fields[i]) : i \in DOMAIN Phase2Fields}) \ {0}
        lists == {c.stats.cycles, c.local.localCycles} \ {0}
    IN top \cup (UNION {Range(heap[l]) : l \in lists} \ {0})

\* what a call alone publishes for this analyzer and configuration, given
\* which of its deadlines expired
AloneContents ==
    <<IF ~stats.Config.ComputePageRank THEN EmptyMap
      ELSE IF PageRankTimedOut THEN UniformPageRank(a)
      ELSE ByIssueID(a, PageRankOf(a)),
      EmptyMap, EmptyMap, EmptyMap, EmptyMap, EmptyMap,
      IF ~(stats.Config.ComputeCycles /\ HasCycles(a)) THEN <<>>
      ELSE IF CyclesTimedOut THEN <<CycleDetectionTimeout>>
      ELSE CyclesToStore(a, stats.Config, DirectedCyclesIn(a))>>

AlonePhase1 ==
    {LET s == computePhase1(NewStats(a, stats.Config, 0), a, sorted)
     IN <<s.OutDegree, s.InDegree, s.TopologicalOrder, s.Density,
          s.NodeCount, s.EdgeCount, s.Config>> : sorted \in SortOrEmpty(a)}

(* C32: no step of an analysis changes the Analyzer (graph, id maps, issue *)
(* map); a step of one call changes no object of the other call; and each *)
(* of two concurrent calls, with the sub-workers either left behind at a   *)
(* deadline, publishes into its own handle what it publishes alone.        *)
C32_AnalyzerReadOnly ==
    /\ [][/\ a' = a
          /\ other' = other => \A addr \in OwnedBy(other) : heap'[addr] = heap[addr]]_vars
    /\ [](pc = "done" => (Phase1Fields \in AlonePhase1 /\ Phase2Contents = AloneContents))
    /\ []((pc # "none" /\ other.pc # "none") => OwnedBy(Call) \cap OwnedBy(other) = {})

\* both calls have published, one after its PageRank deadline expired while
\* its sub-worker was still running, the other with the computed scores
C32_Witness ==
    /\ pc = "done"
    /\ other.pc = "done"
    /\ stats.Config = PageRankOnly
    /\ other.stats.Config = PageRankOnly
    /\ PageRankTimedOut
    /\ PageRank = UniformPageRank(a)
    /\ Len(issues) = 2
    /\ MapAt(heap, other.stats.pageRank) = ByIssueID(a, PageRankOf(a))

-----------------------------------------------------------------------------
(* GetActionableIssues called twice on the same analyzer.                  *)

\* the second call; ret keeps the lists of both calls
GetActionableIssuesAgain ==
    /\ ret.op = "GetActionableIssues"
    /\ \E v \in GetActionableIssues(a) :
          ret' = [op |-> "GetActionableIssues twice", val |-> <<ret.val, v>>]
    /\ UNCHANGED <<issues, a, stats, mu, heap, pc, local, sub, chans, rpc, waited, snaps,
                   cache, now, log, other, ws, fb>>

OrderInit == NilInit

OrderNext == GetActionableIssuesCall \/ GetActionableIssuesAgain

OrderSpec == OrderInit /\ [][OrderNext]_vars

(* C33: for the same issue set every call of GetActionableIssues returns   *)
(* the actionable issues in the same order.  The list is built while       *)
(* ranging over the map issueMap, so two calls can differ.                 *)
C33_SameOrder ==
    ret.op = "GetActionableIssues twice" => ret.val[1] = ret.val[2]

----------------------------------------------------------------------------
(* AnalyzeWithProfile: the synchronous analysis with timing, next to the    *)
(* asynchronous one on the same analyzer.                                   *)

\* which of the four deadlines of computePhase2WithProfile expired
ProfileOutcomes ==
    [PageRankTO : BOOLEAN, BetweennessTO : BOOLEAN, HITSTO : BOOLEAN, CyclesTO : BOOLEAN]

\* the cycles block of computePhase2WithProfile: the first maxCycles id
\* lists and nothing else; localCycles stays nil when the deadline expires
CyclesOfProfile(an, config, to) ==
    IF ~(config.ComputeCycles /\ HasCycles(an)) \/ to.CyclesTO THEN <<>>
    ELSE LET cycles == DirectedCyclesIn(an)
             maxCycles == MaxCyclesOf(config)
             cyclesToProcess == IF Len(cycles) > maxCycles
                                THEN SubSeq(cycles, 1, maxCycles) ELSE cycles
         IN [i \in DOMAIN cyclesToProcess |-> CycleIDs(an, cyclesToProcess[i])]

\* the seven values computePhase2WithProfile assigns under the lock, given
\* the deadline outcomes `to` and the betweenness result `bw`
computePhase2WithProfile(an, config, to, bw) ==
    <<IF ~config.ComputePageRank THEN EmptyMap
      ELSE IF to.PageRankTO THEN UniformPageRank(an)
      ELSE ByIssueID(an, PageRankOf(an)),
      IF config.ComputeBetweenness /\ ~to.BetweennessTO
      THEN ByIssueID(an, bw.Scores) ELSE EmptyMap,
      IF config.ComputeEigenvector THEN ByIssueID(an, computeEigenvector(an)) ELSE EmptyMap,
      IF HITSEnabled(an, config) /\ ~to.HITSTO
      THEN ByIssueID(an, [n \in an.nodes |-> HITSOf(an)[n].Hub]) ELSE EmptyMap,
      IF HITSEnabled(an, config) /\ ~to.HITSTO
      THEN ByIssueID(an, [n \in an.nodes |-> HITSOf(an)[n].Authority]) ELSE EmptyMap,
      IF config.ComputeCriticalPath /\ TopoSortOutcomes(an) # {}
      THEN computeHeights(an, CHOOSE sorted \in TopoSortOutcomes(an) : TRUE) ELSE EmptyMap,
      CyclesOfProfile(an, config, to)>>

\* AnalyzeWithProfile(config) called once the asynchronous handle is
\* published: the call is synchronous, so the caller sees its handle only
\* when it is complete.  ret keeps what the caller reads from that handle
\* and the deadline flags of the profile.
AnalyzeWithProfile(config) ==
    /\ pc = "done"
    /\ ret = NoRet
    /\ \E to \in ProfileOutcomes : \E bw \in BetweennessOutcomes(a, config) :
       \E sorted \in SortOrEmpty(a) :
          LET s == computePhase1(NewStats(a, config, 0), a, sorted)
              approx == config.ComputeBetweenness /\ ~to.BetweennessTO
                        /\ bw.Mode = BetweennessApproximate
              cfg == IF approx THEN [config EXCEPT !.BetweennessIsApproximate = TRUE]
                     ELSE config
          IN ret' = [op |-> "AnalyzeWithProfile",
                     val |-> [phase1 |-> <<s.OutDegree, s.InDegree, s.TopologicalOrder,
                                           s.Density, s.NodeCount, s.EdgeCount, cfg>>,
                              contents |-> computePhase2WithProfile(a, config, to, bw),
                              profile |-> to]]
    /\ UNCHANGED <<issues, a, stats, mu, heap, pc, local, sub, chans, rpc, waited, snaps, cache, now, log, other, ws, fb>>

ProfileInit == CycInit

ProfileNext ==
    \/ \E config \in CycConfigs : AnalyzeAsyncWithConfig(config)
    \/ CycCoordinator
    \/ CyclesWorker
    \/ AnalyzeWithProfile(local.config)

ProfileSpec == ProfileInit /\ [][ProfileNext]_vars

\* the two analyses met the same deadline outcomes and the same order from
\* topo.Sort
SameOutcomes ==
    /\ ret.val.profile.PageRankTO = PageRankTimedOut
    /\ ret.val.profile.BetweennessTO = BetweennessTimedOut
    /\ ret.val.profile.HITSTO = HITSTimedOut
    /\ ret.val.profile.CyclesTO = CyclesTimedOut
    /\ ret.val.phase1[3] = stats.TopologicalOrder

(* C34: for the same analyzer, configuration and outcome of each           *)
(* sub-algorithm, the handle of AnalyzeWithProfile has the phase-1 fields  *)
(* and the phase-2 contents, cycle sentinels included, of the handle of    *)
(* AnalyzeWithConfig.                                                      *)
C34_ProfileEquivalent ==
    (ret.op = "AnalyzeWithProfile" /\ SameOutcomes) =>
        /\ ret.val.phase1 = Phase1Fields
        /\ ret.val.contents = Phase2Contents

----------------------------------------------------------------------------
(* The synchronous Analyze / AnalyzeWithConfig: AnalyzeAsync, WaitForPhase2 *)
(* and a copy of the handle by value.                                       *)

\* the struct literal returned by Analyze and AnalyzeWithConfig: the public
\* fields and the seven phase-2 references of the handle, phase2Ready true,
\* a zero mutex and no phase2Done channel
SyncCopy(s) ==
    [ZeroStats EXCEPT
        !.OutDegree = s.OutDegree, !.InDegree = s.InDegree,
        !.TopologicalOrder = s.TopologicalOrder, !.Density = s.Density,
        !.NodeCount = s.NodeCount, !.EdgeCount = s.EdgeCount, !.Config = s.Config,
        !.pageRank = s.pageRank, !.betweenness = s.betweenness,
        !.eigenvector = s.eigenvector, !.hubs = s.hubs,
        !.authorities = s.authorities, !.criticalPathScore = s.criticalPathScore,
        !.cycles = s.cycles,
        !.phase2Ready = TRUE]

\* the copy taken without stats.WaitForPhase2()
AnalyzeWithConfigReturn_NoWait ==
    /\ pc # "none"
    /\ ret = NoRet
    /\ ret' = [op |-> "AnalyzeWithConfig", val |-> SyncCopy(stats)]
    /\ UNCHANGED <<issues, a, stats, mu, heap, pc, local, sub, chans, rpc, waited, snaps, cache, now, log, other, ws, fb>>

\* stats.WaitForPhase2() returns once phase2Done is closed; then the copy
AnalyzeWithConfigReturn ==
    /\ pc # "none"
    /\ stats.phase2Done \in {"nil", "closed"}
    /\ ret = NoRet
    /\ ret' = [op |-> "AnalyzeWithConfig", val |-> SyncCopy(stats)]
    /\ UNCHANGED <<issues, a, stats, mu, heap, pc, local, sub, chans, rpc, waited, snaps, cache, now, log, other, ws, fb>>

SyncNext ==
    \/ \E config \in Configs : AnalyzeAsyncWithConfig(config)
    \/ Coordinator
    \/ SubWorkers
    \/ AnalyzeWithConfigReturn

SyncSpec == Init /\ [][SyncNext]_vars

\* what the accessors read through a GraphStats value s
ContentsOf(s) ==
    <<MapAt(heap, s.pageRank), MapAt(heap, s.betweenness), MapAt(heap, s.eigenvector),
      MapAt(heap, s.hubs), MapAt(heap, s.authorities), MapAt(heap, s.criticalPathScore),
      RowsAt(heap, s.cycles)>>

(* C35: the value returned by Analyze / AnalyzeWithConfig reads as the      *)
(* asynchronous handle does after WaitForPhase2: IsPhase2Ready is true,     *)
(* WaitForPhase2 returns at once, and the phase-1 fields (Config and its    *)
(* BetweennessIsApproximate included) and the contents behind every         *)
(* accessor are those of the handle.                                        *)
C35_SyncEquivalent ==
    (ret.op = "AnalyzeWithConfig" /\ stats.phase2Done = "closed") =>
        /\ ret.val.phase2Ready /\ IsPhase2Ready
        /\ ret.val.phase2Done \in {"nil", "closed"}
        /\ <<ret.val.OutDegree, ret.val.InDegree, ret.val.TopologicalOrder, ret.val.Density,
             ret.val.NodeCount, ret.val.EdgeCount, ret.val.Config>> = Phase1Fields
        /\ ContentsOf(ret.val) = Phase2Contents

\* a copy of a published handle whose betweenness was approximated
C35_Witness ==
    /\ ret.op = "AnalyzeWithConfig"
    /\ pc = "done"
    /\ ret.val.Config.BetweennessIsApproximate
    /\ DOMAIN ContentsOf(ret.val)[2] # {}

----------------------------------------------------------------------------
(* Consistency of the phase-1 fields of one handle.                        *)

\* the sum of the values of a degree map
RECURSIVE DegreeSum(_)
DegreeSum(m) ==
    IF DOMAIN m = {} THEN 0
    ELSE LET id == CHOOSE x \in DOMAIN m : TRUE
         IN m[id] + DegreeSum([x \in DOMAIN m \ {id} |-> m[x]])

(* C36: on issues with unique ids the phase-1 fields of a handle agree:    *)
(* the OutDegree values and the InDegree values each add up to EdgeCount,  *)
(* both maps have one key per issue id, NodeCount keys in all, and Density *)
(* is EdgeCount / (NodeCount * (NodeCount - 1)) when NodeCount > 1 and 0   *)
(* otherwise.                                                              *)
C36_Phase1Consistent ==
    pc # "none" =>
        /\ DegreeSum(stats.OutDegree) = stats.EdgeCount
        /\ DegreeSum(stats.InDegree) = stats.EdgeCount
        /\ DOMAIN stats.OutDegree = IssueIDs(issues)
        /\ DOMAIN stats.InDegree = IssueIDs(issues)
        /\ Cardinality(IssueIDs(issues)) = stats.NodeCount
        /\ stats.NodeCount = Len(issues)
        /\ stats.Density = IF stats.NodeCount > 1
                           THEN Rat(stats.EdgeCount, stats.NodeCount * (stats.NodeCount - 1))
                           ELSE Zero

\* three issues, two edges, one issue without any edge going out
C36_Witness ==
    /\ pc # "none"
    /\ stats.NodeCount = 3
    /\ stats.EdgeCount = 2
    /\ stats.Density = Rat(2, 6)
    /\ \E id \in DOMAIN stats.OutDegree : stats.OutDegree[id] = 0

\* a lone issue: no edge can exist and the density is 0
C36_WitnessSingle ==
    /\ pc # "none"
    /\ stats.NodeCount = 1
    /\ stats.Density = Zero

----------------------------------------------------------------------------
(* AggregateLoader.LoadAll: one goroutine per enabled repository, started   *)
(* through an errgroup; each stores its LoadResult in results[i] under mu.  *)

MaxRepos == 3

RepoPool == <<"api", "web", "lib", "cli">>

\* Config.Repos: the first n repositories of the pool, each enabled or not
WorkspaceConfigs ==
    UNION {{[k \in 1..n |-> [Name |-> RepoPool[k], Enabled |-> en[k]]] :
               en \in [1..n -> BOOLEAN]} : n \in 0..MaxRepos}

\* getEnabledRepos: the enabled repositories, in configuration order
RECURSIVE getEnabledRepos(_)
getEnabledRepos(repos) ==
    IF repos = <<>> THEN <<>>
    ELSE IF Head(repos).Enabled
         THEN <<Head(repos)>> \o getEnabledRepos(Tail(repos))
         ELSE getEnabledRepos(Tail(repos))

\* what loadSingleRepo returns when the file of the repository loads: its
\* issues with ids qualified by the prefix of the repository (the k-th
\* repository of the pool holds k mod 3 issues)
RepoIssues(name) ==
    LET k == CHOOSE j \in DOMAIN RepoPool : RepoPool[j] = name
    IN [j \in 1..(k % 3) |-> [ID |-> <<name, j>>]]

\* LoadAll up to the g.Go calls; ctx may be cancelled already
LoadAll(config, done) ==
    /\ ws.pc = "none"
    /\ LET enabledRepos == getEnabledRepos(config)
       IN IF enabledRepos = <<>>
          THEN ws' = [ws EXCEPT !.pc = "returned",
                                !.out = [issues |-> <<>>, results |-> <<>>,
                                         err |-> "no enabled repositories in workspace"]]
          ELSE ws' = [ws EXCEPT
                         !.pc = "running",
                         !.enabled = enabledRepos,
                         !.cancelled = done,
                         !.results = [i \in DOMAIN enabledRepos |-> ZeroLoadResult],
                         !.worker = [i \in DOMAIN enabledRepos |->
                                        [pc |-> "select", result |-> ZeroLoadResult]]]
    /\ UNCHANGED <<issues, a, stats, mu, heap, pc, local, sub, chans, rpc, waited, snaps, ret, cache, now, log, other, fb>>

\* the caller's context is cancelled while the loaders run
CancelContext ==
    /\ ws.pc = "running"
    /\ ~ws.cancelled
    /\ ws' = [ws EXCEPT !.cancelled = TRUE]
    /\ UNCHANGED <<issues, a, stats, mu, heap, pc, local, sub, chans, rpc, waited, snaps, ret, cache, now, log, other, fb>>

\* select { case <-ctx.Done(): ...; default: }
LoaderSelect(i) ==
    /\ ws.pc = "running"
    /\ ws.worker[i].pc = "select"
    /\ ws' = IF ws.cancelled
             THEN [ws EXCEPT !.worker[i] =
                      [pc |-> "lock",
                       result |-> [RepoName |-> ws.enabled[i].Name, Issues |-> <<>>,
                                   Error |-> "context canceled"]]]
             ELSE [ws EXCEPT !.worker[i].pc = "load"]
    /\ UNCHANGED <<issues, a, stats, mu, heap, pc, local, sub, chans, rpc, waited, snaps, ret, cache, now, log, other, fb>>

\* issues, err := l.loadSingleRepo(repo): the file loads or it does not
loadSingleRepo(i) ==
    /\ ws.pc = "running"
    /\ ws.worker[i].pc = "load"
    /\ \E ok \in BOOLEAN :
          ws' = [ws EXCEPT !.worker[i] =
                    [pc |-> "lock",
                     result |-> [RepoName |-> ws.enabled[i].Name,
                                 Issues |-> IF ok THEN RepoIssues(ws.enabled[i].Name) ELSE <<>>,
                                 Error |-> IF ok THEN "nil" ELSE "failed to load issues"]]]
    /\ UNCHANGED <<issues, a, stats, mu, heap, pc, local, sub, chans, rpc, waited, snaps, ret, cache, now, log, other, fb>>

\* mu.Lock()
LoaderLock(i) ==
    /\ ws.pc = "running"
    /\ ws.worker[i].pc = "lock"
    /\ ws.mu = 0
    /\ ws' = [ws EXCEPT !.mu = i, !.worker[i].pc = "store"]
    /\ UNCHANGED <<issues, a, stats, mu, heap, pc, local, sub, chans, rpc, waited, snaps, ret, cache, now, log, other, fb>>

\* the goroutines sharing the loop variable: each stores at the last index
LoaderStore_SharedLoopVar(i) ==
    /\ ws.pc = "running"
    /\ ws.worker[i].pc = "store"
    /\ ws' = [ws EXCEPT !.results[Len(ws.results)] = ws.worker[i].result,
                        !.mu = 0,
                        !.worker[i].pc = "done"]
    /\ UNCHANGED <<issues, a, stats, mu, heap, pc, local, sub, chans, rpc, waited, snaps, ret, cache, now, log, other, fb>>

\* results[i] = LoadResult{...}; mu.Unlock(); return nil
LoaderStore(i) ==
    /\ ws.pc = "running"
    /\ ws.worker[i].pc = "store"
    /\ ws' = [ws EXCEPT !.results[i] = ws.worker[i].result,
                        !.mu = 0,
                        !.worker[i].pc = "done"]
    /\ UNCHANGED <<issues, a, stats, mu, heap, pc, local, sub, chans, rpc, waited, snaps, ret, cache, now, log, other, fb>>

\* the merge loop of LoadAll: the issues of the results without error
RECURSIVE MergeResults(_)
MergeResults(results) ==
    IF results = <<>> THEN <<>>
    ELSE IF Head(results).Error # "nil"
         THEN MergeResults(Tail(results))
         ELSE Head(results).Issues \o MergeResults(Tail(results))

\* g.Wait() returns nil once every goroutine has returned; then the merge
LoadAllReturn ==
    /\ ws.pc = "running"
    /\ \A i \in DOMAIN ws.worker : ws.worker[i].pc = "done"
    /\ ws' = [ws EXCEPT !.pc = "returned",
                        !.out = [issues |-> MergeResults(ws.results),
                                 results |-> ws.results, err |-> "nil"]]
    /\ UNCHANGED <<issues, a, stats, mu, heap, pc, local, sub, chans, rpc, waited, snaps, ret, cache, now, log, other, fb>>

LoadInit == StartWith({<<>>})

LoadNext ==
    \/ \E config \in WorkspaceConfigs : \E done \in BOOLEAN : LoadAll(config, done)
    \/ CancelContext
    \/ \E i \in DOMAIN ws.worker :
          LoaderSelect(i) \/ loadSingleRepo(i) \/ LoaderLock(i) \/ LoaderStore(i)
    \/ LoadAllReturn

LoadSpec == LoadInit /\ [][LoadNext]_vars

\* the loader of the i-th enabled repository read its file without error
LoadedOK(i) == ws.worker[i].pc \in {"lock", "store", "done"} /\ ws.worker[i].result.Error = "nil"

\* the issues of the repositories i..n that loaded, in configuration order
RECURSIVE IssuesFrom(_)
IssuesFrom(i) ==
    IF i > Len(ws.enabled) THEN <<>>
    ELSE (IF LoadedOK(i) THEN RepoIssues(ws.enabled[i].Name) ELSE <<>>) \o IssuesFrom(i + 1)

(* C37: whatever the interleaving of the loaders and whichever             *)
(* repositories fail or are cancelled, results[i] is never about another    *)
(* repository than the i-th enabled one; LoadAll returns no error; and the  *)
(* merged list is the issues of exactly the repositories that loaded, in    *)
(* configuration order.                                                     *)
C37_LoadAllMerges ==
    /\ ws.pc = "running" =>
          \A i \in DOMAIN ws.results :
             \/ ws.results[i] = ZeroLoadResult /\ ws.worker[i].pc # "done"
             \/ ws.results[i].RepoName = ws.enabled[i].Name /\ ws.worker[i].pc = "done"
    /\ (ws.pc = "returned" /\ ws.enabled # <<>>) =>
          /\ ws.out.err = "nil"
          /\ Len(ws.out.results) = Len(ws.enabled)
          /\ \A i \in DOMAIN ws.enabled :
                /\ ws.out.results[i].RepoName = ws.enabled[i].Name
                /\ (ws.out.results[i].Error = "nil") = LoadedOK(i)
                /\ LoadedOK(i) => ws.out.results[i].Issues = RepoIssues(ws.enabled[i].Name)
          /\ ws.out.issues = IssuesFrom(1)

\* three enabled repositories: the first failed, the second loaded its two
\* issues, and the third saw the context cancelled
C37_Witness ==
    /\ ws.pc = "returned"
    /\ Len(ws.enabled) = 3
    /\ ws.out.results[1].Error = "failed to load issues"
    /\ ws.out.results[2].Error = "nil"
    /\ ws.out.results[3].Error = "context canceled"
    /\ Len(ws.out.issues) = 2

----------------------------------------------------------------------------
(* FeedbackStore: Save appends one JSON line to the feedback file and       *)
(* updates the cache, all under fs.mu; Load of a second store reads the     *)
(* file back line by line.                                                  *)

FbMaxSaves == 2

FbCallers == {"cli", "tui"}

FeedbackKeys == {<<"c1", "A">>, <<"c2", "A">>}

FeedbackTypes == {"confirm", "reject"}

\* a reason of a few words, one holding bytes that are not valid UTF-8, and
\* one whose JSON line is longer than bufio.MaxScanTokenSize (64 KiB)
ShortText == "short text"
InvalidText == "text with an invalid byte"
LongText == "text of 64 KiB"
Reasons == {ShortText, InvalidText, LongText}

Feedback(key, type, reason) ==
    [CommitSHA |-> key[1], BeadID |-> key[2], Type |-> type, Reason |-> reason]

Feedbacks == {Feedback(key, type, reason) :
                 key \in FeedbackKeys, type \in FeedbackTypes, reason \in Reasons}

ZeroFeedback == Feedback(<<"", "">>, "", "")

\* json.Marshal coerces a string to valid UTF-8: every invalid byte becomes
\* U+FFFD
ToValidUTF8(text) == IF text = InvalidText THEN "text with U+FFFD" ELSE text

\* json.Marshal(fb) and the newline: the line written to the file
Marshal(f) ==
    [json |-> [f EXCEPT !.Reason = ToValidUTF8(f.Reason)],
     tooLong |-> f.Reason = LongText]

\* json.Unmarshal(line, &fb)
Unmarshal(line) == line.json

feedbackKey(f) == <<f.CommitSHA, f.BeadID>>

\* fs.cache[key] = fb
CachePut(c, f) ==
    [k \in DOMAIN c \cup {feedbackKey(f)} |-> IF k = feedbackKey(f) THEN f ELSE c[k]]

\* the scanner loop of Load over the lines from k on: bufio.Scanner stops
\* with ErrTooLong at a line that does not fit its buffer, and Load returns
\* scanner.Err()
RECURSIVE LoadLines(_, _, _)
LoadLines(file, k, c) ==
    IF k > Len(file) THEN [cache |-> c, err |-> "nil"]
    ELSE IF file[k].tooLong THEN [cache |-> c, err |-> "bufio.Scanner: token too long"]
    ELSE LoadLines(file, k + 1, CachePut(c, Unmarshal(file[k])))

\* Get(commitSHA, beadID) on a cache
Get(c, key) ==
    IF key \in DOMAIN c THEN [fb |-> c[key], ok |-> TRUE]
    ELSE [fb |-> ZeroFeedback, ok |-> FALSE]

\* NewFeedbackStore: no file yet, every caller outside Save
NewFeedbackStore ==
    /\ fb = NoStore
    /\ fb' = [fb EXCEPT !.caller = [c \in FbCallers |-> [pc |-> "idle", arg |-> ZeroFeedback]]]
    /\ UNCHANGED <<issues, a, stats, mu, heap, pc, local, sub, chans, rpc, waited, snaps, ret, cache, now, log, other, ws>>

SavesStarted ==
    Len(fb.saves) + Cardinality({c \in DOMAIN fb.caller : fb.caller[c].pc \in {"lock", "write"}})

\* a caller enters Save(f)
SaveCall(c, f) ==
    /\ c \in DOMAIN fb.caller
    /\ fb.caller[c].pc = "idle"
    /\ ~fb.fresh.loaded
    /\ SavesStarted < FbMaxSaves
    /\ fb' = [fb EXCEPT !.caller[c] = [pc |-> "lock", arg |-> f]]
    /\ UNCHANGED <<issues, a, stats, mu, heap, pc, local, sub, chans, rpc, waited, snaps, ret, cache, now, log, other, ws>>

\* fs.mu.Lock(), MkdirAll, OpenFile in append mode, Marshal, file.Write
SaveWrite(c) ==
    /\ c \in DOMAIN fb.caller
    /\ fb.caller[c].pc = "lock"
    /\ fb.mu = ""
    /\ fb' = [fb EXCEPT !.mu = c,
                        !.file = Append(fb.file, Marshal(fb.caller[c].arg)),
                        !.caller[c].pc = "write"]
    /\ UNCHANGED <<issues, a, stats, mu, heap, pc, local, sub, chans, rpc, waited, snaps, ret, cache, now, log, other, ws>>

\* fs.cache[key] = fb; return nil (the deferred Close and Unlock run)
SaveReturn(c) ==
    /\ c \in DOMAIN fb.caller
    /\ fb.caller[c].pc = "write"
    /\ fb' = [fb EXCEPT !.cache = CachePut(fb.cache, fb.caller[c].arg),
                        !.saves = Append(fb.saves, fb.caller[c].arg),
                        !.mu = "",
                        !.caller[c].pc = "idle"]
    /\ UNCHANGED <<issues, a, stats, mu, heap, pc, local, sub, chans, rpc, waited, snaps, ret, cache, now, log, other, ws>>

\* a second store, NewFeedbackStore on the same directory, calls Load once
\* no Save is in progress
LoadFresh ==
    /\ fb.caller # <<>>
    /\ \A c \in DOMAIN fb.caller : fb.caller[c].pc = "idle"
    /\ ~fb.fresh.loaded
    /\ LET r == LoadLines(fb.file, 1, <<>>)
       IN fb' = [fb EXCEPT !.fresh = [loaded |-> TRUE, cache |-> r.cache, err |-> r.err]]
    /\ UNCHANGED <<issues, a, stats, mu, heap, pc, local, sub, chans, rpc, waited, snaps, ret, cache, now, log, other, ws>>

FeedbackInit == StartWith({<<>>})

FeedbackNext ==
    \/ NewFeedbackStore
    \/ \E c \in FbCallers : \E f \in Feedbacks : SaveCall(c, f)
    \/ \E c \in FbCallers : SaveWrite(c) \/ SaveReturn(c)
    \/ LoadFresh

FeedbackSpec == FeedbackInit /\ [][FeedbackNext]_vars

\* the feedback of the last Save that returned for the pair, if any
RECURSIVE LastSaved(_, _)
LastSaved(saves, key) ==
    IF saves = <<>> THEN [fb |-> ZeroFeedback, ok |-> FALSE]
    ELSE IF feedbackKey(saves[Len(saves)]) = key
         THEN [fb |-> saves[Len(saves)], ok |-> TRUE]
         ELSE LastSaved(SubSeq(saves, 1, Len(saves) - 1), key)

\* no caller is inside Save
Quiescent == fb.caller # <<>> /\ \A c \in DOMAIN fb.caller : fb.caller[c].pc = "idle"

(* C38: after any successful Saves, also from concurrent callers, Get       *)
(* returns for every pair the feedback saved last for it, and a second      *)
(* store that loads the file returns the same for every pair.               *)
C38_SaveLoadRoundTrip ==
    /\ Quiescent => \A key \in FeedbackKeys : Get(fb.cache, key) = LastSaved(fb.saves, key)
    /\ fb.fresh.loaded =>
          \A key \in FeedbackKeys : Get(fb.fresh.cache, key) = Get(fb.cache, key)

====
